---- MODULE Spec2Model ----
(***************************************************************************)
(* Model of the Slack connector of the connectors service                  *)
(* (src/connectors/src/connectors/slack/index.ts): the Connector,          *)
(* SlackConfiguration, SlackChannel and SlackMessages tables, and the      *)
(* operations createSlackConnector, setSlackConnectorPermissions,          *)
(* cleanupSlackConnector and retrieveSlackConnectorPermissions, and        *)
(* updateSlackConnector; from bot.ts the operations getBotEnabled and      *)
(* toggleSlackbot.                                                         *)
(*                                                                         *)
(* Every call of an operation runs in a slot p \in Procs.  An await in the *)
(* code is a step boundary of the model.  The caller of the service is     *)
(* sequential: it issues the next operation once the previous one has      *)
(* returned.  The tasks that setSlackConnectorPermissions put on its       *)
(* PQueue keep running after the function has returned (Promise.all        *)
(* rejects on the first rejection and nothing cancels the queue).          *)
(*                                                                         *)
(* Failures that the code handles through a Result (workflow launches,     *)
(* apps.uninstall, nangoDeleteConnection, team.info) are inputs of the     *)
(* actions.  Exceptions of the database driver are not modelled, and the   *)
(* environment variables are taken to be defined.                          *)
(***************************************************************************)
EXTENDS Integers, FiniteSets, Sequences, TLC

\* ---- bounds ----
MaxConnectors == 2
MaxChannels == 2
\* the caller sends a permissions record and may send the same record again
MaxCalls == 2
\* trigger messages the bot receives, and events of one answer stream before its last one
MaxMessages == 2
MaxEvents == 2
\* agents mentioned in one message, and events of the stream of one agent
MaxAgents == 2
MaxStreamEvents == 2
\* Message rows of the conversation
MaxRows == 4
\* the longest duration of a time frame
MaxDuration == 2

ConnIds == 1..MaxConnectors
ChannelIds == 1..MaxChannels
Teams == {"T1", "T2"}
Procs == {1, 2}

\* ConnectorPermission (@connectors/types/resources)
ConnectorPermission == {"read", "write", "read_write", "none"}
\* the filterPermission values of retrieveSlackConnectorPermissions
FilterValues == {"read", "write", "read_write"}

Absent == "absent"     \* no SlackChannel row / no SlackConfiguration row
Unset == "unset"       \* key not present in the permissions record
NoFilter == "nofilter" \* filterPermission undefined
NoUser == "nouser"     \* auth.user() is null
NoTitle == "null"      \* conversation.title is null
Users == {"u1", "u2"}
\* connector ids start at 1; 0 stands for "no connector" in the records below

VARIABLES
  connectors,          \* ids of the Connector rows
  lastId,              \* last id handed out by Connector.create
  slackConfiguration,  \* connector id -> slackTeamId of its SlackConfiguration row, or Absent
  slackChannel,        \* connector id -> slackChannelId -> permission of the row, or Absent
  slackMessages,       \* connector ids that own SlackMessages rows
  syncLaunches,        \* connector id -> number of launchSlackSyncWorkflow calls
  pc,                  \* slot -> position of the function running in it
  kind,                \* slot -> operation the slot ran last
  opConn,              \* slot -> connectorId argument
  ret,                 \* slot -> result of the call ("none" while it runs)
  permissions,         \* slot -> permissions argument of setSlackConnectorPermissions
  channels,            \* slot -> the rows read by SlackChannel.findAll, by slackChannelId
  task,                \* slot -> slackChannelId -> state of the task on the PQueue
  shouldGarbageCollect,\* slot -> the local flag of setSlackConnectorPermissions
  updates,             \* slot -> ids whose row the call has updated
  botJoins,            \* slot -> id -> launchSlackBotJoinedWorkflow calls of the call
  gcLaunches,          \* slot -> launchSlackGarbageCollectWorkflow calls of the call
  repeat,              \* slot -> the call repeats the input of the call just before it
  lastCall,            \* <<connectorId, permissions>> of the last setSlackConnectorPermissions
  revokeLog,           \* slot -> the external calls of the cleanup, in order, with their answers
  configurations,      \* slot -> connector ids of the rows SlackConfiguration.findAll gave the cleanup
  calls,               \* number of setSlackConnectorPermissions calls made so far
  listed,              \* last answer of retrieveSlackConnectorPermissions, or NoList
  connectionId,        \* connector id -> connectionId of the Connector row, or Absent
  defaultNewResourcePermission, \* connector id -> that field of the Connector row, or Absent
  configurationRows,   \* connector id -> number of SlackConfiguration rows with that connectorId
  botEnabled,          \* connector id -> botEnabled of its SlackConfiguration row (FALSE without a row)
  botFlag,             \* slot -> the boolean getBotEnabled returned or toggleSlackbot was given
                       \*         ("true", "false"), or "none"
  updateArgs,          \* slot -> the arguments of updateSlackConnector, or NoUpdate
  request,             \* the last HTTP request the server got, or NoRequest
  trace,               \* the middleware and handlers that ran for it, in order
  status,              \* the status of its response (0 before the first request)
  incrementalSyncs,    \* slackChannelId -> incremental syncs triggered while it was handled
  slackChannelName,    \* connector id -> slackChannelId -> name of the row, or Absent
  channelRows,         \* connector id -> slackChannelId -> number of SlackChannel rows with that key
  searchIndex,         \* connector id -> slackChannelId -> the search index holds its documents
  syncing,             \* the connector whose sync workflow is running, or 0
  upserted,            \* the last upsert of the sync workflow, or NoUpsert
  gcRun,               \* the run of the garbage-collection workflow, or NoGc
  slackChatBotMessage, \* message id -> the SlackChatBotMessage row, or NoRow
  botCall,             \* the call of botAnswerMessageWithErrorHandling: position, row, outcome
  readTransitions,     \* connector id -> slackChannelId -> times the stored permission went
                       \*   from not readable to readable
  eventStreamGenerators, \* the generators of the agent streams still in the merge loop
  eventStreamsPromises,  \* the promise of next() of each of them
  streamEvents,        \* agent -> number of events its stream gives before it is done
  callPc,              \* position of the generator function of conversation.ts
  emitted,             \* the events the function has yielded, in order
  messageRows,         \* the Message rows of the conversation, with their UserMessage or
                       \*   AgentMessage row, in the order of their creation
  mentionRows,         \* the Mention rows
  participants,        \* the users with a ConversationParticipant row
  conversationTitle,   \* the title of the Conversation row, or NoTitle
  txn,                 \* slot -> the transaction of a call: what it read, what it created
  inputs,              \* parameters of the call in progress, and results it is given
  content,             \* conversation.content of the caller of retryAgentMessage
  handed,              \* the content retryAgentMessage hands to runAgent, or NotHanded
  agentMessageRow,     \* the AgentMessage row streamRunAgentEvents writes to
  streamPc,            \* position of streamRunAgentEvents
  retrievalConfig,     \* the AgentRetrievalConfiguration row of the agent, or NoRetrievalConfig
  requested,           \* the query and timeframe of the last call that stored the row
  rendered             \* the query and timeframe that call returned

dbVars == <<connectors, lastId, slackConfiguration, slackChannel, slackMessages, syncLaunches>>
spVars == <<permissions, channels, task, shouldGarbageCollect, updates, botJoins,
            gcLaunches, repeat>>
clVars == <<revokeLog, configurations>>
\* the other fields of the Connector and SlackConfiguration rows
rowVars == <<connectionId, defaultNewResourcePermission, configurationRows, botEnabled>>
\* the arguments and answers of updateSlackConnector, toggleSlackbot and getBotEnabled
cfgVars == <<botFlag, updateArgs>>
\* the HTTP server
srvVars == <<request, trace, status, incrementalSyncs>>
\* the other fields of the SlackChannel rows, and the search index
mirrorVars == <<slackChannelName, channelRows, searchIndex>>
\* the sync and garbage-collection workflows
wfVars == <<syncing, upserted, gcRun>>
\* the Slack bot
botVars == <<slackChatBotMessage, botCall>>
\* what was done to the rows, kept to state properties
histVars == <<readTransitions>>
\* the merge of the agent event streams in postUserMessage and editUserMessage
mergeVars == <<eventStreamGenerators, eventStreamsPromises, streamEvents>>
\* the call of a generator function of conversation.ts
genVars == <<callPc, emitted>>
\* the conversations of the web application
\* the tables of a conversation and the transactions on them
convVars == <<messageRows, mentionRows, participants, conversationTitle, txn>>
\* the stitching of retryAgentMessage
stitchVars == <<content, handed>>
\* streamRunAgentEvents
agentVars == <<agentMessageRow, streamPc>>
\* the retrieval configuration of an agent
retrievalVars == <<retrievalConfig, requested, rendered>>
frontVars == <<mergeVars, genVars, convVars, inputs, stitchVars, agentVars, retrievalVars>>
\* what the operations of the Slack connector leave alone
otherVars == <<srvVars, mirrorVars, wfVars, botVars, histVars, frontVars>>
restVars == <<rowVars, cfgVars, otherVars>>
vars == <<dbVars, pc, kind, opConn, ret, spVars, clVars, lastCall, calls, listed, restVars>>

NoList == [connectorId |-> 0, filter |-> NoFilter, result |-> "none", resources |-> {}]
NoCall == <<0, [id \in ChannelIds |-> Unset]>>
MessageIds == 1..MaxMessages
NoRow == [connectorId |-> 0, slackUserName |-> "", chatSessionSid |-> Unset, completedAt |-> FALSE]
NoBotCall == [pc |-> "idle", message |-> 0, result |-> "none", events |-> 0, event |-> "none",
              text |-> "none", errorMessage |-> "none"]
NoUpsert == [slackChannelId |-> 0, slackChannelName |-> Absent, inserted |-> FALSE]
NoGc == [connectorId |-> 0, todo |-> {}, current |-> 0, confirmed |-> FALSE, failed |-> FALSE,
         removed |-> {}]
NoRequest == [method |-> "none", path |-> <<>>, authorized |-> FALSE, bodyOk |-> FALSE,
              signatureOk |-> FALSE, resource |-> 0]
NoUpdate == [connectionId |-> Unset, team |-> Absent, defaultNewResourcePermission |-> Unset]
\* the nango connection ids: createSlackConnector is given the first one
ConnectionIds == {"k1", "k2"}
DefaultNewResourcePermission == "read_write"

\* ---- helpers ----
Min(S) == CHOOSE x \in S : \A y \in S : x <= y

\* ["read", "read_write"].includes(permission)
IsReadable(permission) == permission \in {"read", "read_write"}

\* a task of the slot's PQueue that has neither resolved nor rejected
Pending(p) == {id \in ChannelIds : task[p][id] \in {"update", "join"}}

\* the slot can take a new call: its function has returned and its queue is empty
Free(p) == pc[p] = "idle" /\ Pending(p) = {}

\* sequential caller: every earlier call has returned; the call takes the first free slot
CanStart(p) ==
  /\ \A q \in Procs : pc[q] = "idle"
  /\ \E q \in Procs : Free(q)
  /\ p = Min({q \in Procs : Free(q)})

\* the state of a slot that starts a call other than setSlackConnectorPermissions
ResetSetPerm(p) ==
  /\ permissions' = [permissions EXCEPT ![p] = [id \in ChannelIds |-> Unset]]
  /\ channels' = [channels EXCEPT ![p] = [id \in ChannelIds |-> Absent]]
  /\ task' = [task EXCEPT ![p] = [id \in ChannelIds |-> "none"]]
  /\ shouldGarbageCollect' = [shouldGarbageCollect EXCEPT ![p] = FALSE]
  /\ updates' = [updates EXCEPT ![p] = {}]
  /\ botJoins' = [botJoins EXCEPT ![p] = [id \in ChannelIds |-> 0]]
  /\ gcLaunches' = [gcLaunches EXCEPT ![p] = 0]
  /\ repeat' = [repeat EXCEPT ![p] = FALSE]

ResetConfigCall(p) ==
  /\ botFlag' = [botFlag EXCEPT ![p] = "none"]
  /\ updateArgs' = [updateArgs EXCEPT ![p] = NoUpdate]

ResetCleanup(p) ==
  /\ revokeLog' = [revokeLog EXCEPT ![p] = <<>>]
  /\ configurations' = [configurations EXCEPT ![p] = {}]

\* no call has been made yet
InitCalls ==
  /\ pc = [p \in Procs |-> "idle"]
  /\ kind = [p \in Procs |-> "none"]
  /\ opConn = [p \in Procs |-> 0]
  /\ ret = [p \in Procs |-> "none"]
  /\ permissions = [p \in Procs |-> [id \in ChannelIds |-> Unset]]
  /\ channels = [p \in Procs |-> [id \in ChannelIds |-> Absent]]
  /\ task = [p \in Procs |-> [id \in ChannelIds |-> "none"]]
  /\ shouldGarbageCollect = [p \in Procs |-> FALSE]
  /\ updates = [p \in Procs |-> {}]
  /\ botJoins = [p \in Procs |-> [id \in ChannelIds |-> 0]]
  /\ gcLaunches = [p \in Procs |-> 0]
  /\ repeat = [p \in Procs |-> FALSE]
  /\ lastCall = NoCall
  /\ revokeLog = [p \in Procs |-> <<>>]
  /\ configurations = [p \in Procs |-> {}]
  /\ calls = 0
  /\ listed = NoList
  /\ botFlag = [p \in Procs |-> "none"]
  /\ updateArgs = [p \in Procs |-> NoUpdate]
  /\ request = NoRequest
  /\ trace = <<>>
  /\ status = 0
  /\ incrementalSyncs = [id \in ChannelIds |-> 0]
  /\ upserted = NoUpsert
  /\ gcRun = NoGc
  /\ slackChatBotMessage = [m \in MessageIds |-> NoRow]
  /\ botCall = NoBotCall
  /\ readTransitions = [c \in ConnIds |-> [id \in ChannelIds |-> 0]]

\* the fields of the rows of connectors that were created and never updated
InitRowFields ==
  /\ connectionId = [c \in ConnIds |-> IF c \in connectors THEN "k1" ELSE Absent]
  /\ defaultNewResourcePermission =
       [c \in ConnIds |-> IF c \in connectors THEN DefaultNewResourcePermission ELSE Absent]
  /\ configurationRows = [c \in ConnIds |-> IF slackConfiguration[c] # Absent THEN 1 ELSE 0]
  /\ slackChannelName =
       [c \in ConnIds |-> [id \in ChannelIds |-> IF slackChannel[c][id] # Absent THEN "a" ELSE Absent]]
  /\ channelRows =
       [c \in ConnIds |-> [id \in ChannelIds |-> IF slackChannel[c][id] # Absent THEN 1 ELSE 0]]
  /\ searchIndex = [c \in ConnIds |-> [id \in ChannelIds |-> slackChannel[c][id] # Absent]]

\* ... and whose bot was never toggled
InitRows ==
  /\ InitRowFields
  /\ botEnabled = [c \in ConnIds |-> FALSE]

\* a row streamRunAgentEvents has not been given
NoAgentMessageRow == [status |-> "none", errorCode |-> "null", errorMessage |-> "null",
                      content |-> "null", agentRetrievalActionId |-> "null"]
NotHanded == <<<<0>>>>

\* null in a column of strings, and in a column of numbers
Null == "NULL"
NullNumber == -1

\* the agent has no retrieval configuration
NoRetrievalConfig ==
  [query |-> "norow", queryTemplate |-> Null, relativeTimeFrame |-> "norow",
   relativeTimeFrameDuration |-> NullNumber, relativeTimeFrameUnit |-> Null]
NoRetrieval ==
  [fn |-> "none",
   query |-> [kind |-> "auto", template |-> Null],
   timeframe |-> [kind |-> "auto", duration |-> NullNumber, unit |-> Null]]
InitRetrieval ==
  /\ retrievalConfig = NoRetrievalConfig
  /\ requested = NoRetrieval
  /\ rendered = NoRetrieval

\* no retry and no agent stream
InitStitch == content = <<>> /\ handed = NotHanded
InitAgentRow == agentMessageRow = NoAgentMessageRow /\ streamPc = "idle"

\* no transaction
NoTxn == [fn |-> "none", state |-> "idle", user |-> NoUser,
          mentions |-> [agents |-> 0, configured |-> {}, users |-> 0],
          nextMessageRank |-> 0, message |-> 0, rank |-> 0, version |-> 0, parentId |-> 0,
          userMessage |-> 0, agentMessages |-> <<>>]

\* the call in progress has no inputs
NoInputs == [fn |-> "none", title |-> NoTitle, titleRes |-> "none", ownerOk |-> TRUE,
             user |-> NoUser, message |-> 0, agents |-> 0]

\* a conversation without messages, and no call
InitTables ==
  /\ messageRows = <<>>
  /\ mentionRows = <<>>
  /\ participants = {}
  /\ txn = [p \in Procs |-> NoTxn]
  /\ inputs = NoInputs
  /\ InitStitch
  /\ InitAgentRow
  /\ InitRetrieval

\* no conversation is being handled
InitFront ==
  /\ eventStreamGenerators = <<>>
  /\ eventStreamsPromises = <<>>
  /\ streamEvents = [a \in 1..MaxAgents |-> 0]
  /\ callPc = "idle"
  /\ emitted = <<>>
  /\ InitTables
  /\ conversationTitle = NoTitle

\* the connectors service after start-up, with empty tables
InitConnectors ==
  /\ connectors = {}
  /\ lastId = 0
  /\ slackConfiguration = [c \in ConnIds |-> Absent]
  /\ slackChannel = [c \in ConnIds |-> [id \in ChannelIds |-> Absent]]
  /\ slackMessages = {}
  /\ syncLaunches = [c \in ConnIds |-> 0]
  /\ InitCalls
  /\ InitRows
  /\ syncing = 0

\* the service after start-up
Init ==
  /\ InitConnectors
  /\ InitFront

\* ---- createSlackConnector ----
\* the answers client.team.info() can give
TeamInfos == {[ok |-> FALSE, team |-> Absent], [ok |-> TRUE, team |-> Absent]}
             \cup {[ok |-> TRUE, team |-> t] : t \in Teams}

\* the checks of the transaction before it creates a row (index.ts 57-74)
TeamInfoError(teamInfo) ==
  IF teamInfo.ok # TRUE THEN "err_team_info"
  ELSE IF teamInfo.team = Absent THEN "err_team_id"
  ELSE "none"

\* a transaction that creates its rows before it looks at the team id
ReachesCreate_BeforeTeamId(teamInfo) == teamInfo.ok = TRUE

\* the transaction gets to Connector.create and SlackConfiguration.create (index.ts 76-95)
ReachesCreate(teamInfo) == TeamInfoError(teamInfo) = "none"

\* the transaction of createSlackConnector (index.ts 44-99)
CreateTransaction(p, teamInfo) ==
  /\ CanStart(p)
  /\ lastId < MaxConnectors
  /\ kind' = [kind EXCEPT ![p] = "create"]
  /\ ResetSetPerm(p)
  /\ ResetCleanup(p)
  /\ ResetConfigCall(p)
  /\ lastCall' = NoCall
  /\ UNCHANGED <<calls, listed, otherVars>>
  /\ ret' = [ret EXCEPT ![p] = TeamInfoError(teamInfo)]
  /\ IF ReachesCreate(teamInfo)
       THEN /\ lastId' = lastId + 1
            /\ connectors' = connectors \cup {lastId + 1}
            /\ connectionId' = [connectionId EXCEPT ![lastId + 1] = "k1"]
            /\ defaultNewResourcePermission' =
                 [defaultNewResourcePermission EXCEPT ![lastId + 1] = DefaultNewResourcePermission]
            /\ slackConfiguration' = [slackConfiguration EXCEPT ![lastId + 1] = teamInfo.team]
            /\ configurationRows' = [configurationRows EXCEPT ![lastId + 1] = @ + 1]
            /\ botEnabled' = [botEnabled EXCEPT ![lastId + 1] = FALSE]
            /\ UNCHANGED <<slackChannel, slackMessages, syncLaunches>>
       ELSE UNCHANGED <<dbVars, connectionId, defaultNewResourcePermission,
                        configurationRows, botEnabled>>
  /\ IF TeamInfoError(teamInfo) = "none"
       THEN /\ opConn' = [opConn EXCEPT ![p] = lastId + 1]
            /\ pc' = [pc EXCEPT ![p] = "cr_launch"]
       ELSE /\ opConn' = [opConn EXCEPT ![p] = 0]
            /\ UNCHANGED pc

\* launchSlackSyncWorkflow and the return of createSlackConnector (index.ts 101-113)
CreateLaunch(p, launchOk) ==
  /\ pc[p] = "cr_launch"
  /\ syncLaunches' = [syncLaunches EXCEPT ![opConn[p]] = @ + 1]
  /\ ret' = [ret EXCEPT ![p] = IF launchOk THEN "ok" ELSE "err_launch"]
  /\ pc' = [pc EXCEPT ![p] = "idle"]
  /\ UNCHANGED <<calls, listed, restVars>>
  /\ UNCHANGED <<connectors, lastId, slackConfiguration, slackChannel, slackMessages,
                 kind, opConn, spVars, clVars, lastCall>>

\* ---- the sync workflow's writes to the mirror (not in index.ts) ----
\* a channel discovered by the sync gets a SlackChannel row with the connector's
\* defaultNewResourcePermission, and its messages get SlackMessages rows
SyncChannel(c, id) ==
  /\ c \in connectors
  /\ slackConfiguration[c] # Absent
  /\ slackChannel[c][id] = Absent
  /\ slackChannel' = [slackChannel EXCEPT ![c][id] = DefaultNewResourcePermission]
  /\ slackChannelName' = [slackChannelName EXCEPT ![c][id] = "a"]
  /\ channelRows' = [channelRows EXCEPT ![c][id] = @ + 1]
  /\ searchIndex' = [searchIndex EXCEPT ![c][id] = TRUE]
  /\ slackMessages' = slackMessages \cup {c}
  /\ lastCall' = NoCall
  /\ UNCHANGED <<calls, listed, rowVars, cfgVars, srvVars, wfVars, botVars, histVars, frontVars>>
  /\ UNCHANGED <<connectors, lastId, slackConfiguration, syncLaunches,
                 pc, kind, opConn, ret, spVars, clVars>>

\* ---- setSlackConnectorPermissions ----
\* oldPermission === permission: the task returns without a write (index.ts 413-416)
SamePermission(oldPermission, permission) == oldPermission = permission

\* a condition that forgets the old permission
ReadEnabled_AnyRead(oldPermission, permission) == IsReadable(permission)

\* "handle read permission enabled" (index.ts 421-424)
ReadEnabled(oldPermission, permission) ==
  ~IsReadable(oldPermission) /\ IsReadable(permission)

\* a condition that forgets the old permission
ReadDisabled_AnyNoRead(oldPermission, permission) == ~IsReadable(permission)

\* "handle read permission disabled" (index.ts 434-437)
ReadDisabled(oldPermission, permission) ==
  IsReadable(oldPermission) /\ ~IsReadable(permission)

\* the rows SlackChannel.findAll returns for the keys of the record (index.ts 383-395)
FindChannels(c, perms) ==
  [id \in ChannelIds |-> IF perms[id] # Unset THEN slackChannel[c][id] ELSE Absent]

\* a loop without the check for a missing channel
QueuedTask_NoRowCheck(channel, permission) ==
  IF permission = Unset THEN "none"
  ELSE IF channel = permission THEN "done"
  ELSE "update"

\* the task the loop queues for an entry of the record (index.ts 401-416); the
\* queue runs 10 tasks at a time and the record has at most MaxChannels entries, so
\* every task starts, and reads channel.permission, inside q.add
QueuedTask(channel, permission) ==
  IF permission = Unset THEN "none"
  ELSE IF channel = Absent THEN "none"
  ELSE IF SamePermission(channel, permission) THEN "done"
  ELSE "update"

Rejected(p) == {id \in ChannelIds : task[p][id] = "rejected"}

\* index.ts 367-443: the two lookups, findAll, and the loop that fills the queue
SetPermCall(p, c, perms) ==
  /\ kind' = [kind EXCEPT ![p] = "setperm"]
  /\ opConn' = [opConn EXCEPT ![p] = c]
  /\ permissions' = [permissions EXCEPT ![p] = perms]
  /\ shouldGarbageCollect' = [shouldGarbageCollect EXCEPT ![p] = FALSE]
  /\ updates' = [updates EXCEPT ![p] = {}]
  /\ botJoins' = [botJoins EXCEPT ![p] = [id \in ChannelIds |-> 0]]
  /\ gcLaunches' = [gcLaunches EXCEPT ![p] = 0]
  /\ repeat' = [repeat EXCEPT ![p] = (lastCall = <<c, perms>>)]
  /\ lastCall' = <<c, perms>>
  /\ calls' = calls + 1
  /\ UNCHANGED restVars
  /\ UNCHANGED listed
  /\ ResetCleanup(p)
  /\ IF c \notin connectors
       THEN /\ ret' = [ret EXCEPT ![p] = "err_connector_not_found"]
            /\ channels' = [channels EXCEPT ![p] = [id \in ChannelIds |-> Absent]]
            /\ task' = [task EXCEPT ![p] = [id \in ChannelIds |-> "none"]]
            /\ UNCHANGED pc
     ELSE IF slackConfiguration[c] = Absent
       THEN /\ ret' = [ret EXCEPT ![p] = "err_configuration_not_found"]
            /\ channels' = [channels EXCEPT ![p] = [id \in ChannelIds |-> Absent]]
            /\ task' = [task EXCEPT ![p] = [id \in ChannelIds |-> "none"]]
            /\ UNCHANGED pc
     ELSE /\ ret' = [ret EXCEPT ![p] = "none"]
          /\ channels' = [channels EXCEPT ![p] = FindChannels(c, perms)]
          /\ task' = [task EXCEPT ![p] =
                        [id \in ChannelIds |-> QueuedTask(FindChannels(c, perms)[id], perms[id])]]
          /\ pc' = [pc EXCEPT ![p] = "sp_await"]
  /\ UNCHANGED dbVars

\* a call of a caller that waits for the answer of its last call
SetPermStart(p, c, perms) ==
  /\ CanStart(p)
  /\ calls < MaxCalls
  /\ calls > 0 => lastCall = <<c, perms>>
  /\ SetPermCall(p, c, perms)

\* a call of a caller that does not wait: the call may overlap the one before it
SetPermOverlap(p, c, perms) ==
  /\ \E q \in Procs : Free(q)
  /\ p = Min({q \in Procs : Free(q)})
  /\ calls < MaxCalls
  /\ SetPermCall(p, c, perms)

\* channel.update resolves and the task runs on to its next await or to its end
\* (index.ts 417-440)
TaskUpdate(p, id) ==
  /\ task[p][id] = "update"
  /\ slackChannel' = [slackChannel EXCEPT ![opConn[p]][id] = permissions[p][id]]
  /\ updates' = [updates EXCEPT ![p] = @ \cup {id}]
  /\ IF ReadEnabled(channels[p][id], permissions[p][id])
       THEN /\ task' = [task EXCEPT ![p][id] = "join"]
            /\ UNCHANGED shouldGarbageCollect
       ELSE /\ task' = [task EXCEPT ![p][id] = "done"]
            /\ shouldGarbageCollect' =
                 [shouldGarbageCollect EXCEPT ![p] =
                    @ \/ ReadDisabled(channels[p][id], permissions[p][id])]
  /\ readTransitions' =
       [readTransitions EXCEPT ![opConn[p]][id] =
          IF ReadEnabled(slackChannel[opConn[p]][id], permissions[p][id]) THEN @ + 1 ELSE @]
  /\ UNCHANGED <<calls, listed, rowVars, cfgVars, srvVars, mirrorVars, wfVars, botVars,
                 frontVars>>
  /\ UNCHANGED <<connectors, lastId, slackConfiguration, slackMessages, syncLaunches,
                 pc, kind, opConn, ret, permissions, channels, botJoins, gcLaunches,
                 repeat, clVars, lastCall>>

\* launchSlackBotJoinedWorkflow answers; an Err makes the task throw (index.ts 426-432)
TaskBotJoin(p, id, launchOk) ==
  /\ task[p][id] = "join"
  /\ botJoins' = [botJoins EXCEPT ![p][id] = @ + 1]
  /\ task' = [task EXCEPT ![p][id] = IF launchOk THEN "done" ELSE "rejected"]
  /\ UNCHANGED <<calls, listed, restVars>>
  /\ UNCHANGED <<dbVars, pc, kind, opConn, ret, permissions, channels, shouldGarbageCollect,
                 updates, gcLaunches, repeat, clVars, lastCall>>

\* Promise.all rejects with the first rejection and the function returns it
\* (index.ts 445-449)
SetPermReject(p) ==
  /\ pc[p] = "sp_await"
  /\ Rejected(p) # {}
  /\ ret' = [ret EXCEPT ![p] = "err_bot_join"]
  /\ pc' = [pc EXCEPT ![p] = "idle"]
  /\ UNCHANGED <<calls, listed, restVars>>
  /\ UNCHANGED <<dbVars, kind, opConn, spVars, clVars, lastCall>>

\* Promise.all resolves; garbage collection is launched if the flag is set
\* (index.ts 446, 451-458)
SetPermResolve(p, launchOk) ==
  /\ pc[p] = "sp_await"
  /\ \A id \in ChannelIds : task[p][id] \in {"none", "done"}
  /\ IF shouldGarbageCollect[p]
       THEN /\ gcLaunches' = [gcLaunches EXCEPT ![p] = @ + 1]
            /\ ret' = [ret EXCEPT ![p] = IF launchOk THEN "ok" ELSE "err_garbage_collect"]
       ELSE /\ launchOk
            /\ ret' = [ret EXCEPT ![p] = "ok"]
            /\ UNCHANGED gcLaunches
  /\ pc' = [pc EXCEPT ![p] = "idle"]
  /\ UNCHANGED <<calls, listed, restVars>>
  /\ UNCHANGED <<dbVars, kind, opConn, permissions, channels, task, shouldGarbageCollect,
                 updates, botJoins, repeat, clVars, lastCall>>

\* ---- cleanupSlackConnector ----
\* SlackConfiguration.findAll({where: {slackTeamId}}) (index.ts 217-222)
ConfigurationsOfTeam(team) == {c \in ConnIds : slackConfiguration[c] = team}

\* a test that does not look for siblings of the team
OnlyConnectionOfTeam_Any(found) == Cardinality(found) >= 1

\* "only if we are the only live slack connection for this team" (index.ts 225)
OnlyConnectionOfTeam(found) == Cardinality(found) = 1

\* index.ts 196-225: the lookups and the choice between the two branches
CleanupCall(p, c) ==
  /\ kind' = [kind EXCEPT ![p] = "cleanup"]
  /\ opConn' = [opConn EXCEPT ![p] = c]
  /\ ResetSetPerm(p)
  /\ revokeLog' = [revokeLog EXCEPT ![p] = <<>>]
  /\ lastCall' = NoCall
  /\ ResetConfigCall(p)
  /\ UNCHANGED <<calls, listed, rowVars, otherVars>>
  /\ IF c \notin connectors
       THEN /\ ret' = [ret EXCEPT ![p] = "err_connector_not_found"]
            /\ configurations' = [configurations EXCEPT ![p] = {}]
            /\ UNCHANGED pc
     ELSE IF slackConfiguration[c] = Absent
       THEN /\ ret' = [ret EXCEPT ![p] = "err_configuration_not_found"]
            /\ configurations' = [configurations EXCEPT ![p] = {}]
            /\ UNCHANGED pc
     ELSE /\ ret' = [ret EXCEPT ![p] = "none"]
          /\ configurations' = [configurations EXCEPT ![p] =
                                   ConfigurationsOfTeam(slackConfiguration[c])]
          /\ pc' = [pc EXCEPT ![p] =
                      IF OnlyConnectionOfTeam(ConfigurationsOfTeam(slackConfiguration[c]))
                        THEN "cl_uninstall" ELSE "cl_destroy"]
  /\ UNCHANGED dbVars

\* a cleanup started after every earlier call has returned
CleanupStart(p, c) ==
  /\ CanStart(p)
  /\ CleanupCall(p, c)

\* a cleanup that may overlap another one: each slot runs one cleanup, of a
\* connector no other slot is cleaning up
CleanupOverlap(p, c) ==
  /\ pc[p] = "idle"
  /\ kind[p] = "none"
  /\ \A q \in Procs : kind[q] = "cleanup" => opConn[q] # c
  /\ CleanupCall(p, c)

\* a cleanup that does not look at the answer of apps.uninstall
UninstallSucceeded_Ignored(ok) == TRUE

\* deleteRes.ok: the cleanup goes on only after a successful uninstall (index.ts 241)
UninstallSucceeded(ok) == ok

\* slackClient.apps.uninstall answers (index.ts 235-247)
CleanupUninstall(p, ok) ==
  /\ pc[p] = "cl_uninstall"
  /\ revokeLog' = [revokeLog EXCEPT ![p] = Append(@, [call |-> "apps.uninstall", ok |-> ok])]
  /\ IF UninstallSucceeded(ok)
       THEN /\ pc' = [pc EXCEPT ![p] = "cl_nango"]
            /\ UNCHANGED ret
       ELSE /\ pc' = [pc EXCEPT ![p] = "idle"]
            /\ ret' = [ret EXCEPT ![p] = "err_uninstall"]
  /\ UNCHANGED <<calls, listed, restVars>>
  /\ UNCHANGED <<dbVars, kind, opConn, spVars, configurations, lastCall>>

\* nangoDeleteConnection answers (index.ts 249-255)
CleanupNangoDelete(p, ok) ==
  /\ pc[p] = "cl_nango"
  /\ revokeLog' = [revokeLog EXCEPT ![p] = Append(@, [call |-> "nangoDeleteConnection", ok |-> ok])]
  /\ IF ok
       THEN /\ pc' = [pc EXCEPT ![p] = "cl_destroy"]
            /\ UNCHANGED ret
       ELSE /\ pc' = [pc EXCEPT ![p] = "idle"]
            /\ ret' = [ret EXCEPT ![p] = "err_nango_delete"]
  /\ UNCHANGED <<calls, listed, restVars>>
  /\ UNCHANGED <<dbVars, kind, opConn, spVars, configurations, lastCall>>

\* a cleanup that leaves the configuration rows in the table
DestroyedConfigurations_None(c) == {}

\* SlackConfiguration.destroy where connectorId (index.ts 276-281)
DestroyedConfigurations(c) == {c}

\* SlackMessages.destroy, SlackConfiguration.destroy and the return (index.ts 270-283)
CleanupDestroyRows(p) ==
  /\ pc[p] = "cl_destroy"
  /\ slackMessages' = slackMessages \ {opConn[p]}
  /\ slackConfiguration' = [c \in ConnIds |-> IF c \in DestroyedConfigurations(opConn[p])
                                                 THEN Absent ELSE slackConfiguration[c]]
  /\ configurationRows' = [c \in ConnIds |-> IF c \in DestroyedConfigurations(opConn[p])
                                                THEN 0 ELSE configurationRows[c]]
  /\ botEnabled' = [c \in ConnIds |-> IF c \in DestroyedConfigurations(opConn[p])
                                         THEN FALSE ELSE botEnabled[c]]
  /\ ret' = [ret EXCEPT ![p] = "ok"]
  /\ pc' = [pc EXCEPT ![p] = "idle"]
  /\ UNCHANGED <<calls, listed, cfgVars, otherVars>>
  /\ UNCHANGED <<lastId, slackChannel, syncLaunches, kind, opConn, spVars, clVars, lastCall>>

\* cleanupSlackConnector called on its own: the function destroys no SlackChannel
\* row and leaves the Connector row to its caller
CleanupDestroy(p) ==
  /\ CleanupDestroyRows(p)
  /\ UNCHANGED <<connectors, connectionId, defaultNewResourcePermission>>

\* ---- the delete of a connector (the caller of cleanupSlackConnector, not in index.ts) ----
\* The caller opens the transaction that cleanupSlackConnector is given, and the
\* Connector row is deleted in that transaction: the destroys of the cleanup and
\* the delete of the Connector row are committed together.
DeleteConnector(p) ==
  /\ CleanupDestroyRows(p)
  /\ connectors' = connectors \ {opConn[p]}
  /\ connectionId' = [connectionId EXCEPT ![opConn[p]] = Absent]
  /\ defaultNewResourcePermission' = [defaultNewResourcePermission EXCEPT ![opConn[p]] = Absent]

\* ---- updateSlackConnector ----
\* the permission the caller passes as the new default
UpdatePermissions == {"none"}

\* the arguments (the caller passes the second connection id, or none), and the
\* team of the new connection as nango gives it; the connection is fetched only
\* when a connectionId is passed
UpdateInputs ==
  {a \in [connectionId : (ConnectionIds \ {"k1"}) \cup {Unset},
          team : Teams \cup {Absent},
          defaultNewResourcePermission : UpdatePermissions \cup {Unset}] :
     a.connectionId = Unset => a.team = Absent}

\* a check that lets a connection without a team through
TeamMismatch_OnlyKnownTeam(newTeamId, slackTeamId) ==
  newTeamId # Absent /\ newTeamId # slackTeamId

\* !newTeamId || newTeamId !== currentSlackConfig.slackTeamId (index.ts 171)
TeamMismatch(newTeamId, slackTeamId) ==
  newTeamId = Absent \/ newTeamId # slackTeamId

\* index.ts 116-190
UpdateSlackConnector(p, c, args) ==
  /\ CanStart(p)
  /\ kind' = [kind EXCEPT ![p] = "update"]
  /\ opConn' = [opConn EXCEPT ![p] = c]
  /\ updateArgs' = [updateArgs EXCEPT ![p] = args]
  /\ botFlag' = [botFlag EXCEPT ![p] = "none"]
  /\ ResetSetPerm(p)
  /\ ResetCleanup(p)
  /\ lastCall' = NoCall
  /\ UNCHANGED <<dbVars, pc, calls, listed, configurationRows, botEnabled, otherVars>>
  /\ IF c \notin connectors
       THEN /\ ret' = [ret EXCEPT ![p] = "err_connector_not_found"]
            /\ UNCHANGED <<connectionId, defaultNewResourcePermission>>
     ELSE IF slackConfiguration[c] = Absent
       THEN /\ ret' = [ret EXCEPT ![p] = "err_configuration_not_found"]
            /\ UNCHANGED <<connectionId, defaultNewResourcePermission>>
     ELSE IF args.connectionId # Unset /\ TeamMismatch(args.team, slackConfiguration[c])
       THEN /\ ret' = [ret EXCEPT ![p] = "connector_oauth_target_mismatch"]
            /\ UNCHANGED <<connectionId, defaultNewResourcePermission>>
     ELSE /\ ret' = [ret EXCEPT ![p] = "ok"]
          /\ connectionId' =
               IF args.connectionId # Unset
                 THEN [connectionId EXCEPT ![c] = args.connectionId]
                 ELSE connectionId
          /\ defaultNewResourcePermission' =
               IF args.defaultNewResourcePermission # Unset
                 THEN [defaultNewResourcePermission EXCEPT
                         ![c] = args.defaultNewResourcePermission]
                 ELSE defaultNewResourcePermission

\* ---- getBotEnabled and toggleSlackbot (bot.ts) ----
\* a lookup that takes every configuration of the connector's team
ConfigurationOfConnector_ByTeam(c) ==
  {d \in ConnIds : slackConfiguration[d] # Absent /\ slackConfiguration[d] = slackConfiguration[c]}

\* SlackConfiguration.findOne where connectorId (bot.ts 220-224, 240-244)
ConfigurationOfConnector(c) == {d \in ConnIds : d = c /\ slackConfiguration[d] # Absent}

\* bot.ts 217-234
GetBotEnabled(p, c) ==
  /\ CanStart(p)
  /\ kind' = [kind EXCEPT ![p] = "get_bot_enabled"]
  /\ opConn' = [opConn EXCEPT ![p] = c]
  /\ updateArgs' = [updateArgs EXCEPT ![p] = NoUpdate]
  /\ ResetSetPerm(p)
  /\ ResetCleanup(p)
  /\ lastCall' = NoCall
  /\ UNCHANGED <<dbVars, pc, calls, listed, rowVars, otherVars>>
  /\ IF ConfigurationOfConnector(c) = {}
       THEN /\ ret' = [ret EXCEPT ![p] = "err_configuration_not_found"]
            /\ botFlag' = [botFlag EXCEPT ![p] = "none"]
       ELSE /\ ret' = [ret EXCEPT ![p] = "ok"]
            /\ botFlag' = [botFlag EXCEPT ![p] =
                            IF \A d \in ConfigurationOfConnector(c) : botEnabled[d]
                              THEN "true" ELSE "false"]

\* bot.ts 236-256
ToggleSlackbot(p, c, enabled) ==
  /\ CanStart(p)
  /\ kind' = [kind EXCEPT ![p] = "toggle"]
  /\ opConn' = [opConn EXCEPT ![p] = c]
  /\ botFlag' = [botFlag EXCEPT ![p] = IF enabled THEN "true" ELSE "false"]
  /\ updateArgs' = [updateArgs EXCEPT ![p] = NoUpdate]
  /\ ResetSetPerm(p)
  /\ ResetCleanup(p)
  /\ lastCall' = NoCall
  /\ UNCHANGED <<dbVars, pc, calls, listed, connectionId, defaultNewResourcePermission,
                 configurationRows, otherVars>>
  /\ IF ConfigurationOfConnector(c) = {}
       THEN /\ ret' = [ret EXCEPT ![p] = "err_configuration_not_found"]
            /\ UNCHANGED botEnabled
       ELSE /\ ret' = [ret EXCEPT ![p] = "ok"]
            /\ botEnabled' = [d \in ConnIds |-> IF d \in ConfigurationOfConnector(c)
                                                   THEN enabled ELSE botEnabled[d]]

\* ---- retrieveSlackConnectorPermissions ----
\* a switch whose "write" case forgets read_write
PermissionToFilter_WriteOnly(filterPermission) ==
  CASE filterPermission = "read" -> {"read", "read_write"}
    [] filterPermission = "write" -> {"write"}
    [] filterPermission = "read_write" -> {"read_write"}
    [] OTHER -> {}

\* the switch on filterPermission (index.ts 320-332)
PermissionToFilter(filterPermission) ==
  CASE filterPermission = "read" -> {"read", "read_write"}
    [] filterPermission = "write" -> {"write", "read_write"}
    [] filterPermission = "read_write" -> {"read_write"}
    [] OTHER -> {}

\* the rows of the SlackChannel table
SlackChannelRows ==
  {[connectorId |-> c, slackChannelId |-> id, permission |-> slackChannel[c][id]] :
     c \in ConnIds, id \in ChannelIds}
  \ {[connectorId |-> c, slackChannelId |-> id, permission |-> Absent] :
       c \in ConnIds, id \in ChannelIds}

\* the where clause of SlackChannel.findAll (index.ts 334-347)
FilteredChannels(c, filterPermission) ==
  IF filterPermission # NoFilter
    THEN {ch \in SlackChannelRows : /\ ch.connectorId = c
                                    /\ ch.permission \in PermissionToFilter(filterPermission)}
    ELSE {ch \in SlackChannelRows : ch.connectorId = c}

\* index.ts 286-361; a resource of the answer keeps the connector of its row
RetrievePermissions(c, parentInternalId, filterPermission) ==
  /\ listed = NoList
  /\ \A q \in Procs : Free(q)
  /\ listed' =
       IF parentInternalId
         THEN [connectorId |-> c, filter |-> filterPermission,
               result |-> "err_parent", resources |-> {}]
       ELSE IF c \notin connectors
         THEN [connectorId |-> c, filter |-> filterPermission,
               result |-> "err_connector_not_found", resources |-> {}]
       ELSE IF slackConfiguration[c] = Absent
         THEN [connectorId |-> c, filter |-> filterPermission,
               result |-> "err_configuration_not_found", resources |-> {}]
       ELSE [connectorId |-> c, filter |-> filterPermission, result |-> "ok",
             resources |-> {[connectorId |-> ch.connectorId, internalId |-> ch.slackChannelId,
                             permission |-> ch.permission] :
                              ch \in FilteredChannels(c, filterPermission)}]
  /\ UNCHANGED <<dbVars, pc, kind, opConn, ret, spVars, clVars, lastCall, calls, restVars>>

\* ---- the upsert of the sync workflow (Resource Mirror Store, not in index.ts) ----
\* the names a channel may have
ChannelNames == {"a", "b", "c"}

\* an upsert that inserts a row whether or not the key has one
UpsertInserts_Always(c, id) == TRUE

\* the key (connectorId, slackChannelId) has no row yet
UpsertInserts(c, id) == channelRows[c][id] = 0

\* upsert(connectorId, resource), keyed by (connectorId, externalId): a channel
\* seen for the first time gets a row with the connector's default permission,
\* a known channel gets the name of the call (the later update wins)
Upsert(c, id, name) ==
  /\ syncing = c
  /\ c \in connectors
  /\ slackConfiguration[c] # Absent
  /\ upserted' = [slackChannelId |-> id, slackChannelName |-> name,
                  inserted |-> UpsertInserts(c, id)]
  /\ slackChannelName' = [slackChannelName EXCEPT ![c][id] = name]
  /\ IF UpsertInserts(c, id)
       THEN /\ channelRows' = [channelRows EXCEPT ![c][id] = @ + 1]
            /\ slackChannel' = [slackChannel EXCEPT ![c][id] =
                                  IF @ = Absent THEN defaultNewResourcePermission[c] ELSE @]
            /\ searchIndex' = [searchIndex EXCEPT ![c][id] = TRUE]
            /\ slackMessages' = slackMessages \cup {c}
       ELSE UNCHANGED <<channelRows, slackChannel, searchIndex, slackMessages>>
  /\ UNCHANGED <<connectors, lastId, slackConfiguration, syncLaunches, pc, kind, opConn, ret,
                 spVars, clVars, lastCall, calls, listed, rowVars, cfgVars, srvVars,
                 syncing, gcRun, botVars, histVars, frontVars>>

\* a sync workflow runs for one of the connectors, which has no channel row yet;
\* the other connectors are synced
InitUpsert ==
  /\ lastId \in 1..MaxConnectors
  /\ connectors = 1..lastId
  /\ slackConfiguration = [c \in ConnIds |-> IF c \in connectors THEN "T1" ELSE Absent]
  /\ syncing \in connectors
  /\ slackChannel = [c \in ConnIds |->
                       IF c \in connectors \ {syncing}
                         THEN [id \in ChannelIds |-> DefaultNewResourcePermission]
                         ELSE [id \in ChannelIds |-> Absent]]
  /\ slackMessages = connectors \ {syncing}
  /\ syncLaunches = [c \in ConnIds |-> IF c \in connectors THEN 1 ELSE 0]
  /\ InitCalls
  /\ InitRows
  /\ InitFront

NextUpsert == \E c \in ConnIds, id \in ChannelIds, name \in ChannelNames : Upsert(c, id, name)

SpecUpsert == InitUpsert /\ [][NextUpsert]_vars

\* ---- the garbage-collection workflow (Sync Orchestrator, not in index.ts) ----
\* a workflow that removes the row without waiting for the index
GcMayDeleteRow_Unconfirmed(run) == run.current # 0

\* the deletion of the index entry of the current channel is confirmed
GcMayDeleteRow(run) == run.current # 0 /\ run.confirmed

\* the workflow starts for a connector and lists the channels with permission
\* "none" that still have a row
GcStart(c) ==
  /\ gcRun.current = 0
  /\ gcRun.todo = {} \/ gcRun.failed
  /\ c \in connectors
  /\ slackConfiguration[c] # Absent
  /\ gcRun' = [connectorId |-> c, todo |-> {id \in ChannelIds : slackChannel[c][id] = "none"},
               current |-> 0, confirmed |-> FALSE, failed |-> FALSE, removed |-> {}]
  /\ UNCHANGED <<dbVars, pc, kind, opConn, ret, spVars, clVars, lastCall, calls, listed,
                 rowVars, cfgVars, srvVars, mirrorVars, syncing, upserted, botVars, histVars, frontVars>>

\* the workflow takes the next channel of its list
GcPick(id) ==
  /\ gcRun.current = 0
  /\ ~gcRun.failed
  /\ id \in gcRun.todo
  /\ gcRun' = [gcRun EXCEPT !.current = id, !.confirmed = FALSE]
  /\ UNCHANGED <<dbVars, pc, kind, opConn, ret, spVars, clVars, lastCall, calls, listed,
                 rowVars, cfgVars, srvVars, mirrorVars, syncing, upserted, botVars, histVars, frontVars>>

\* the search index answers the deletion of the channel's documents; after a
\* failure the run stops with the rows it has not handled
GcIndexDelete(ok) ==
  /\ gcRun.current # 0
  /\ ~gcRun.confirmed
  /\ IF ok
       THEN /\ searchIndex' = [searchIndex EXCEPT ![gcRun.connectorId][gcRun.current] = FALSE]
            /\ gcRun' = [gcRun EXCEPT !.confirmed = TRUE]
       ELSE /\ gcRun' = [gcRun EXCEPT !.current = 0, !.failed = TRUE]
            /\ UNCHANGED searchIndex
  /\ UNCHANGED <<dbVars, pc, kind, opConn, ret, spVars, clVars, lastCall, calls, listed,
                 rowVars, cfgVars, srvVars, slackChannelName, channelRows, syncing, upserted,
                 botVars, histVars, frontVars>>

\* the workflow removes the mirror row of the current channel
GcMirrorDelete ==
  /\ GcMayDeleteRow(gcRun)
  /\ slackChannel' = [slackChannel EXCEPT ![gcRun.connectorId][gcRun.current] = Absent]
  /\ slackChannelName' = [slackChannelName EXCEPT ![gcRun.connectorId][gcRun.current] = Absent]
  /\ channelRows' = [channelRows EXCEPT ![gcRun.connectorId][gcRun.current] = 0]
  /\ gcRun' = [gcRun EXCEPT !.current = 0, !.confirmed = FALSE,
                            !.todo = @ \ {gcRun.current},
                            !.removed = @ \cup {gcRun.current}]
  /\ UNCHANGED <<connectors, lastId, slackConfiguration, slackMessages, syncLaunches,
                 pc, kind, opConn, ret, spVars, clVars, lastCall, calls, listed,
                 rowVars, cfgVars, srvVars, searchIndex, syncing, upserted, botVars, histVars, frontVars>>

\* the process crashes in the middle of a channel: the run resumes at the last
\* completed step and handles the channel again
GcCrash ==
  /\ gcRun.current # 0
  /\ gcRun' = [gcRun EXCEPT !.current = 0, !.confirmed = FALSE]
  /\ UNCHANGED <<dbVars, pc, kind, opConn, ret, spVars, clVars, lastCall, calls, listed,
                 rowVars, cfgVars, srvVars, mirrorVars, syncing, upserted, botVars, histVars, frontVars>>

NextGc ==
  \/ \E c \in ConnIds : GcStart(c)
  \/ \E id \in ChannelIds : GcPick(id)
  \/ \E ok \in BOOLEAN : GcIndexDelete(ok)
  \/ GcMirrorDelete
  \/ GcCrash

\* C17: whatever upserts were made, a key (connectorId, slackChannelId) has at
\* most one row, the key of the last upsert has exactly one row and that row has
\* the name of the last call
C17_UpsertOneRow ==
  /\ \A c \in ConnIds, id \in ChannelIds :
       /\ channelRows[c][id] <= 1
       /\ channelRows[c][id] = 1 <=> slackChannel[c][id] # Absent
  /\ upserted # NoUpsert =>
       /\ channelRows[syncing][upserted.slackChannelId] = 1
       /\ slackChannelName[syncing][upserted.slackChannelId] = upserted.slackChannelName

\* an upsert of a key that had a row gave the row another name
C17_Witness ==
  /\ upserted # NoUpsert
  /\ ~upserted.inserted
  /\ upserted.slackChannelName = "b"
  /\ channelRows[syncing][upserted.slackChannelId] = 1
  /\ slackChannelName[syncing][upserted.slackChannelId] = "b"

\* C16: a step that removes a mirror row finds the index entry of that row
\* deleted and the deletion confirmed to the run, also after a failed index
\* deletion or a crash
C16_IndexDeletedBeforeRow ==
  [][\A c \in ConnIds, id \in ChannelIds :
       (slackChannel[c][id] # Absent /\ slackChannel'[c][id] = Absent) =>
         /\ ~searchIndex[c][id]
         /\ gcRun.confirmed
         /\ gcRun.connectorId = c /\ gcRun.current = id]_vars

\* a run removed a row, then an index deletion failed: the other row is still there
C16_Witness ==
  /\ gcRun.failed
  /\ gcRun.removed # {}
  /\ \E id \in gcRun.todo :
       /\ slackChannel[gcRun.connectorId][id] = "none"
       /\ searchIndex[gcRun.connectorId][id]

\* ---- the Slack bot (bot.ts) ----
\* what the call leaves alone
botFrame == <<dbVars, pc, kind, opConn, ret, spVars, clVars, lastCall, calls, listed,
              rowVars, cfgVars, srvVars, mirrorVars, wfVars, histVars, frontVars>>

\* the session ids of the assistant
SessionIds == {"s1"}

\* the events of the stream of an answer; "end" is the end of the stream
ChatEvents == {"chat_message_create", "chat_message_create_error", "chat_message_tokens",
               "chat_session_update", "end"}

\* the configurations botAnswerMessageWithErrorHandling may find for a team
BotConfigurations(team) == {c \in ConnIds : slackConfiguration[c] = team /\ botEnabled[c]}

\* a bot that marks the message completed at every event that ends the loop
CompletedBy_AnyLastEvent(event) ==
  event \in {"chat_session_update", "chat_message_create_error", "end"}

\* the event at which the row gets completedAt and chatSessionSid
CompletedBy(event) == event = "chat_session_update"

\* what botAnswerMessage returns at an event, "none" while the loop goes on
EventResult(event) ==
  CASE event = "chat_message_create_error" -> "err_answer"
    [] event = "chat_session_update" -> "ok"
    [] event = "end" -> "err_no_final_answer"
    [] OTHER -> "none"

\* the message botAnswerMessageWithErrorHandling posts for a result
ErrorMessage(result) ==
  CASE result = "err_external_user" -> "external_user"
    [] result \in {"err_new_chat", "err_answer", "err_no_final_answer"} -> "generic"
    [] OTHER -> "none"

\* a trigger of a team arrives: without a configuration with the bot enabled the
\* call fails, else botAnswerMessage creates the row of the message
BotReceive(team) ==
  /\ botCall.pc = "idle"
  /\ \E m \in MessageIds : slackChatBotMessage[m] = NoRow
  /\ IF BotConfigurations(team) = {}
       THEN /\ botCall' = [NoBotCall EXCEPT !.result = "err_no_configuration"]
            /\ UNCHANGED slackChatBotMessage
       ELSE \E c \in BotConfigurations(team) :
              IF c \notin connectors
                THEN /\ botCall' = [NoBotCall EXCEPT !.result = "err_no_connector"]
                     /\ UNCHANGED slackChatBotMessage
                ELSE LET m == Min({n \in MessageIds : slackChatBotMessage[n] = NoRow}) IN
                     /\ slackChatBotMessage' =
                          [slackChatBotMessage EXCEPT ![m] = [NoRow EXCEPT !.connectorId = c]]
                     /\ botCall' = [NoBotCall EXCEPT !.pc = "users_info", !.message = m]
  /\ UNCHANGED botFrame

\* users.info answers: an error is thrown, a user of another team is refused, the
\* row of a member is saved with their name and the bot posts its first message
BotUsersInfo(info, name) ==
  /\ botCall.pc = "users_info"
  /\ CASE info = "error" ->
            /\ botCall' = [botCall EXCEPT !.pc = "idle", !.result = "thrown"]
            /\ UNCHANGED slackChatBotMessage
       [] info = "external" ->
            /\ botCall' = [botCall EXCEPT !.pc = "idle", !.result = "err_external_user",
                                          !.errorMessage = ErrorMessage("err_external_user")]
            /\ UNCHANGED slackChatBotMessage
       [] OTHER ->
            /\ slackChatBotMessage' =
                 [slackChatBotMessage EXCEPT ![botCall.message].slackUserName = name]
            /\ botCall' = [botCall EXCEPT !.pc = "new_chat", !.text = "thinking"]
  /\ UNCHANGED botFrame

\* newChatStreamed answers
BotNewChat(ok) ==
  /\ botCall.pc = "new_chat"
  /\ botCall' = IF ok THEN [botCall EXCEPT !.pc = "stream"]
                ELSE [botCall EXCEPT !.pc = "idle", !.result = "err_new_chat",
                                     !.errorMessage = ErrorMessage("err_new_chat")]
  /\ UNCHANGED <<slackChatBotMessage, botFrame>>

\* one turn of the loop over the event stream; sent: a second has passed since
\* the last update of the message
BotEvent(event, sent, sId) ==
  /\ botCall.pc = "stream"
  /\ EventResult(event) = "none" => botCall.events < MaxEvents
  /\ slackChatBotMessage' =
       IF CompletedBy(event)
         THEN [slackChatBotMessage EXCEPT ![botCall.message].chatSessionSid = sId,
                                          ![botCall.message].completedAt = TRUE]
         ELSE slackChatBotMessage
  /\ botCall' =
       [botCall EXCEPT
          !.event = event,
          !.events = IF EventResult(event) = "none" THEN @ + 1 ELSE @,
          !.text = CASE event = "chat_message_tokens" /\ sent -> "answer"
                     [] event = "chat_session_update" -> "final"
                     [] OTHER -> @,
          !.result = EventResult(event),
          !.errorMessage = ErrorMessage(EventResult(event)),
          !.pc = IF EventResult(event) = "none" THEN "stream" ELSE "idle"]
  /\ UNCHANGED botFrame

\* connectors whose first sync is to come, some with the bot enabled
InitBot ==
  /\ lastId \in 1..MaxConnectors
  /\ connectors = 1..lastId
  /\ slackConfiguration \in [ConnIds -> Teams \cup {Absent}]
  /\ \A c \in ConnIds : slackConfiguration[c] # Absent <=> c \in connectors
  /\ slackChannel = [c \in ConnIds |-> [id \in ChannelIds |-> Absent]]
  /\ slackMessages = {}
  /\ syncLaunches = [c \in ConnIds |-> IF c \in connectors THEN 1 ELSE 0]
  /\ InitCalls
  /\ InitRowFields
  /\ botEnabled \in [ConnIds -> BOOLEAN]
  /\ \A c \in ConnIds : botEnabled[c] => c \in connectors
  /\ syncing = 0
  /\ InitFront

NextBot ==
  \/ \E team \in Teams : BotReceive(team)
  \/ \E info \in {"error", "external", "member"}, name \in {"", "u"} : BotUsersInfo(info, name)
  \/ \E ok \in BOOLEAN : BotNewChat(ok)
  \/ \E event \in ChatEvents, sent \in BOOLEAN, sId \in SessionIds : BotEvent(event, sent, sId)

SpecBot == InitBot /\ [][NextBot]_vars

\* C18: botAnswerMessage has a row for its message from its first step on; a row
\* is completed exactly when it has a session id, and the row of the call is
\* completed exactly when the last event the loop handled was chat_session_update
C18_CompletedAtFinalAnswer ==
  /\ \A m \in MessageIds :
       slackChatBotMessage[m].completedAt <=> slackChatBotMessage[m].chatSessionSid # Unset
  /\ botCall.pc # "idle" => botCall.message # 0
  /\ botCall.message # 0 =>
       /\ slackChatBotMessage[botCall.message] # NoRow
       /\ slackChatBotMessage[botCall.message].completedAt <=>
            botCall.event = "chat_session_update"
       /\ slackChatBotMessage[botCall.message].completedAt <=> botCall.result = "ok"

\* a message was completed, and the stream of the next one ended without an answer
C18_Witness ==
  /\ \E m \in MessageIds : slackChatBotMessage[m].completedAt
  /\ botCall.message # 0
  /\ botCall.result = "err_no_final_answer"
  /\ ~slackChatBotMessage[botCall.message].completedAt

\* ---- the HTTP server (startServer) ----
\* a layer of the express application: a route (method, path, handlers) or a
\* middleware mounted with app.use
Route(method, path, handlers) ==
  [kind |-> "route", method |-> method, path |-> path, handlers |-> handlers]
Use(name) == [kind |-> "use", method |-> "*", path |-> <<>>, handlers |-> <<name>>]

\* a server that mounts the authentication after the webhook routes
Stack_WebhooksBeforeAuth ==
  << Route("GET", <<>>, <<"healthCheck">>),
     Use("bodyParser.json"),
     Route("POST", <<"webhooks", ":webhook_secret", "slack">>, <<"webhookSlackAPIHandler">>),
     Route("POST", <<"webhooks", ":webhook_secret", "google_drive">>,
           <<"webhookGoogleDriveAPIHandler">>),
     Route("POST", <<"webhooks", ":webhooks_secret", "github">>,
           <<"bodyParser.raw", "webhookGithubAPIHandler">>),
     Use("authMiddleware"),
     Route("POST", <<"connectors", "create", ":connector_provider">>, <<"createConnectorAPIHandler">>),
     Route("GET", <<"connectors", ":connector_id">>, <<"getConnectorAPIHandler">>) >>

\* a server that mounts the authentication after the first connector routes
Stack_AuthAfterCreate ==
  << Route("GET", <<>>, <<"healthCheck">>),
     Use("bodyParser.json"),
     Route("POST", <<"connectors", "create", ":connector_provider">>, <<"createConnectorAPIHandler">>),
     Route("POST", <<"connectors", "update", ":connector_id">>, <<"getConnectorUpdateAPIHandler">>),
     Use("authMiddleware"),
     Route("GET", <<"connectors", ":connector_id">>, <<"getConnectorAPIHandler">>),
     Route("POST", <<"webhooks", ":webhook_secret", "slack">>, <<"webhookSlackAPIHandler">>) >>

\* the layers in the order startServer registers them (part_003 30-83)
Stack ==
  << Route("GET", <<>>, <<"healthCheck">>),
     Use("bodyParser.json"),
     Use("authMiddleware"),
     Route("POST", <<"connectors", "create", ":connector_provider">>, <<"createConnectorAPIHandler">>),
     Route("POST", <<"connectors", "update", ":connector_id">>, <<"getConnectorUpdateAPIHandler">>),
     Route("POST", <<"connectors", "stop", ":connector_id">>, <<"stopConnectorAPIHandler">>),
     Route("POST", <<"connectors", "resume", ":connector_id">>, <<"resumeConnectorAPIHandler">>),
     Route("DELETE", <<"connectors", "delete", ":connector_id">>, <<"deleteConnectorAPIHandler">>),
     Route("GET", <<"connectors", ":connector_id">>, <<"getConnectorAPIHandler">>),
     Route("GET", <<"connectors", ":connector_id", "bot_enabled">>, <<"getBotEnabledAPIHandler">>),
     Route("POST", <<"connectors", ":connector_id", "bot_enabled">>, <<"setBotEnabledAPIHandler">>),
     Route("POST", <<"connectors", "sync", ":connector_id">>, <<"syncConnectorAPIHandler">>),
     Route("GET", <<"connectors", ":connector_id", "permissions">>,
           <<"getConnectorPermissionsAPIHandler">>),
     Route("POST", <<"connectors", ":connector_id", "resources", "parents">>,
           <<"getResourcesParentsAPIHandler">>),
     Route("POST", <<"connectors", ":connector_id", "resources", "titles">>,
           <<"getResourcesTitlesAPIHandler">>),
     Route("POST", <<"connectors", ":connector_id", "permissions">>,
           <<"setConnectorPermissionsAPIHandler">>),
     Route("POST", <<"webhooks", ":webhook_secret", "slack">>, <<"webhookSlackAPIHandler">>),
     Route("POST", <<"webhooks", ":webhook_secret", "google_drive">>,
           <<"webhookGoogleDriveAPIHandler">>),
     Route("POST", <<"webhooks", ":webhooks_secret", "github">>,
           <<"bodyParser.raw", "webhookGithubAPIHandler">>) >>

\* a segment of a route path that is a parameter
IsParam(segment) ==
  segment \in {":connector_provider", ":connector_id", ":webhook_secret", ":webhooks_secret"}

\* express matches a route path segment by segment; a parameter takes any segment
PathMatches(pattern, path) ==
  /\ Len(pattern) = Len(path)
  /\ \A i \in 1..Len(pattern) : IsParam(pattern[i]) \/ pattern[i] = path[i]

\* app.use without a path matches every request; a route matches its method and path
LayerMatches(layer, req) ==
  layer.kind = "use" \/ (layer.method = req.method /\ PathMatches(layer.path, req.path))

WebhookHandlers ==
  {"webhookSlackAPIHandler", "webhookGoogleDriveAPIHandler", "webhookGithubAPIHandler"}

\* the shared secret of the webhook paths
WebhookSecret == "secret"

\* authMiddleware (@connectors/middleware/auth, not in part_003): a webhook
\* request carries the shared secret in its path, any other request an
\* authentication header
AuthPasses(req) ==
  IF Len(req.path) >= 1 /\ req.path[1] = "webhooks"
    THEN Len(req.path) >= 2 /\ req.path[2] = WebhookSecret
    ELSE req.authorized

\* a webhook handler (@connectors/api/webhooks, not in part_003) checks the
\* signature of the payload before it does anything, and triggers one incremental
\* sync of the resource of a valid event
WebhookAccepts(req) == req.signatureOk

\* the answer of the last handler of a route
HandlerStatus(name, req) ==
  IF name \in WebhookHandlers THEN (IF WebhookAccepts(req) THEN 200 ELSE 401) ELSE 200

\* the request goes down the stack from layer i: a middleware answers with an
\* error or passes the request on, the first matching route answers it, and
\* express answers 404 when nothing matched
RECURSIVE Dispatch(_, _, _)
Dispatch(req, i, ran) ==
  IF i > Len(Stack) THEN [trace |-> ran, status |-> 404]
  ELSE LET layer == Stack[i]
           name == layer.handlers[1]
       IN  IF ~LayerMatches(layer, req) THEN Dispatch(req, i + 1, ran)
           ELSE IF layer.kind = "route"
             THEN [trace |-> ran \o layer.handlers,
                   status |-> HandlerStatus(layer.handlers[Len(layer.handlers)], req)]
           ELSE IF name = "bodyParser.json" /\ ~req.bodyOk
             THEN [trace |-> Append(ran, name), status |-> 400]
           ELSE IF name = "authMiddleware" /\ ~AuthPasses(req)
             THEN [trace |-> Append(ran, name), status |-> 401]
           ELSE Dispatch(req, i + 1, Append(ran, name))

\* the paths of the requests
Paths ==
  { <<>>,
    <<"connectors", "create", "slack">>, <<"connectors", "update", "1">>,
    <<"connectors", "stop", "1">>, <<"connectors", "resume", "1">>,
    <<"connectors", "delete", "1">>, <<"connectors", "sync", "1">>,
    <<"connectors", "1">>, <<"connectors", "1", "bot_enabled">>,
    <<"connectors", "1", "permissions">>,
    <<"connectors", "1", "resources", "parents">>,
    <<"connectors", "1", "resources", "titles">>,
    <<"connectors">>, <<"connectors", "1", "resources">>, <<"health">>,
    <<"webhooks", WebhookSecret, "slack">>, <<"webhooks", WebhookSecret, "google_drive">>,
    <<"webhooks", WebhookSecret, "github">>, <<"webhooks", "guess", "slack">>,
    <<"webhooks", "guess", "github">>, <<"webhooks", WebhookSecret>> }

\* the requests: the event of a webhook request names a resource; the other
\* requests carry an authentication header that is valid or not
Requests ==
  {r \in [method : {"GET", "POST", "DELETE"}, path : Paths, authorized : BOOLEAN,
          bodyOk : BOOLEAN, signatureOk : BOOLEAN, resource : ChannelIds] :
     IF Len(r.path) >= 1 /\ r.path[1] = "webhooks"
       THEN ~r.authorized
       ELSE ~r.signatureOk /\ r.resource = 1}

\* what the server does with each request
Responses == [req \in Requests |-> Dispatch(req, 1, <<>>)]

\* the request reached a webhook handler and the handler accepted its event
Triggers(req) ==
  /\ Len(Responses[req].trace) >= 1
  /\ Responses[req].trace[Len(Responses[req].trace)] \in WebhookHandlers
  /\ Responses[req].status = 200

\* the server answers a request (part_003 26-88)
HandleRequest(req) ==
  /\ request' = req
  /\ trace' = Responses[req].trace
  /\ status' = Responses[req].status
  /\ incrementalSyncs' =
       [id \in ChannelIds |-> IF Triggers(req) /\ id = req.resource THEN 1 ELSE 0]
  /\ UNCHANGED <<dbVars, pc, kind, opConn, ret, spVars, clVars, lastCall, calls, listed,
                 rowVars, cfgVars, mirrorVars, wfVars, botVars, histVars, frontVars>>

NextServer == \E req \in Requests : HandleRequest(req)

SpecServer == Init /\ [][NextServer]_vars

\* ---- specifications ----
PermissionRecords == [ChannelIds -> ConnectorPermission \cup {Unset}]

\* create, sync and cleanup of connectors, from the empty tables
Next ==
  \/ \E p \in {q \in Procs : CanStart(q)}, teamInfo \in TeamInfos : CreateTransaction(p, teamInfo)
  \/ \E p \in Procs, launchOk \in BOOLEAN : CreateLaunch(p, launchOk)
  \/ \E c \in ConnIds, id \in ChannelIds : SyncChannel(c, id)
  \/ \E p \in {q \in Procs : CanStart(q)}, c \in ConnIds : CleanupStart(p, c)
  \/ \E p \in Procs, ok \in BOOLEAN : CleanupUninstall(p, ok)
  \/ \E p \in Procs, ok \in BOOLEAN : CleanupNangoDelete(p, ok)
  \/ \E p \in Procs : CleanupDestroy(p)

Spec == Init /\ [][Next]_vars

\* the connectors of this specification are installed in the first team
ConfigTeamInfos == {teamInfo \in TeamInfos : teamInfo.team \in {Absent, "T1"}}

\* create, update, bot toggle and delete of connectors, from the empty tables
NextConfig ==
  \/ \E p \in {q \in Procs : CanStart(q)}, teamInfo \in ConfigTeamInfos :
       CreateTransaction(p, teamInfo)
  \/ \E p \in Procs, launchOk \in BOOLEAN : CreateLaunch(p, launchOk)
  \/ \E p \in {q \in Procs : CanStart(q)}, c \in ConnIds, args \in UpdateInputs :
       UpdateSlackConnector(p, c, args)
  \/ \E p \in {q \in Procs : CanStart(q)}, c \in ConnIds, enabled \in BOOLEAN :
       ToggleSlackbot(p, c, enabled)
  \/ \E p \in {q \in Procs : CanStart(q)}, c \in ConnIds : GetBotEnabled(p, c)
  \/ \E p \in {q \in Procs : CanStart(q)}, c \in ConnIds : CleanupStart(p, c)
  \/ \E p \in Procs, ok \in BOOLEAN : CleanupUninstall(p, ok)
  \/ \E p \in Procs, ok \in BOOLEAN : CleanupNangoDelete(p, ok)
  \/ \E p \in Procs : DeleteConnector(p)

SpecConfig == Init /\ [][NextConfig]_vars

\* The tables after connectors 1..lastId were created and synced: the channels of
\* a connector that is alone hold any permission (or have no row); with several
\* connectors the first one's channels all hold one permission (or have no row),
\* the channels of the others still hold the default, and the last connector may
\* have been cleaned up.
InitMirror ==
  /\ lastId \in 1..MaxConnectors
  /\ connectors = 1..lastId
  /\ \E last \in {"T1", Absent} :
       slackConfiguration = [c \in ConnIds |->
                               IF c \notin 1..lastId THEN Absent
                               ELSE IF c = 1 \/ c < lastId THEN "T1" ELSE last]
  /\ \E first \in IF lastId = 1
                   THEN [ChannelIds -> ConnectorPermission \cup {Absent}]
                   ELSE {[id \in ChannelIds |-> v] : v \in ConnectorPermission \cup {Absent}} :
       slackChannel = [c \in ConnIds |->
                         IF c = 1 THEN first
                         ELSE IF c \in 1..lastId
                           THEN [id \in ChannelIds |-> DefaultNewResourcePermission]
                         ELSE [id \in ChannelIds |-> Absent]]
  /\ slackMessages = {c \in connectors : /\ slackConfiguration[c] # Absent
                                        /\ \E id \in ChannelIds : slackChannel[c][id] # Absent}
  /\ syncLaunches = [c \in ConnIds |-> IF c \in connectors THEN 1 ELSE 0]
  /\ InitCalls
  /\ InitRows
  /\ syncing = 0
  /\ InitFront

\* the caller's first record is any record for any connector id; after it the
\* caller sends the same record again
CallInputs == IF calls = 0 THEN ConnIds \X PermissionRecords ELSE {lastCall}

\* setSlackConnectorPermissions on a mirror in any state
NextPerm ==
  \/ \E p \in {q \in Procs : CanStart(q)}, input \in CallInputs :
       SetPermStart(p, input[1], input[2])
  \/ \E p \in Procs, id \in ChannelIds : TaskUpdate(p, id)
  \/ \E p \in Procs, id \in ChannelIds, launchOk \in BOOLEAN : TaskBotJoin(p, id, launchOk)
  \/ \E p \in Procs : SetPermReject(p)
  \/ \E p \in Procs, launchOk \in BOOLEAN : SetPermResolve(p, launchOk)

SpecPerm == InitMirror /\ [][NextPerm]_vars

\* the records with one entry
SingleEntryRecords ==
  {perms \in PermissionRecords : Cardinality({id \in ChannelIds : perms[id] # Unset}) = 1}

\* setSlackConnectorPermissions calls that may overlap, each for one channel
NextOverlap ==
  \/ \E p \in Procs, c \in ConnIds, perms \in SingleEntryRecords : SetPermOverlap(p, c, perms)
  \/ \E p \in Procs, id \in ChannelIds : TaskUpdate(p, id)
  \/ \E p \in Procs, id \in ChannelIds, launchOk \in BOOLEAN : TaskBotJoin(p, id, launchOk)
  \/ \E p \in Procs : SetPermReject(p)
  \/ \E p \in Procs, launchOk \in BOOLEAN : SetPermResolve(p, launchOk)

SpecOverlap == InitMirror /\ [][NextOverlap]_vars

\* cleanups of the connectors of a team that may overlap
NextCleanupOverlap ==
  \/ \E p \in Procs, c \in ConnIds : CleanupOverlap(p, c)
  \/ \E p \in Procs, ok \in BOOLEAN : CleanupUninstall(p, ok)
  \/ \E p \in Procs, ok \in BOOLEAN : CleanupNangoDelete(p, ok)
  \/ \E p \in Procs : CleanupDestroy(p)

SpecCleanupOverlap == InitMirror /\ [][NextCleanupOverlap]_vars

\* retrieveSlackConnectorPermissions on a mirror in any state of the first
\* connector; the channels of another connector all hold the same permission, or
\* have no row
InitList ==
  /\ lastId \in 1..MaxConnectors
  /\ connectors = 1..lastId
  /\ \E configured \in SUBSET (1..lastId) :
       slackConfiguration = [c \in ConnIds |-> IF c \in configured THEN "T1" ELSE Absent]
  /\ \E first \in [ChannelIds -> ConnectorPermission \cup {Absent}],
        others \in [ConnIds -> ConnectorPermission \cup {Absent}] :
       /\ \A c \in ConnIds : (c = 1 \/ c \notin 1..lastId) => others[c] = Absent
       /\ slackChannel = [c \in ConnIds |->
                            IF c = 1 THEN first ELSE [id \in ChannelIds |-> others[c]]]
  /\ slackMessages = {}
  /\ syncLaunches = [c \in ConnIds |-> IF c \in connectors THEN 1 ELSE 0]
  /\ InitCalls
  /\ InitRows
  /\ syncing = 0
  /\ InitFront

NextList ==
  \E c \in ConnIds, parentInternalId \in BOOLEAN, filterPermission \in FilterValues \cup {NoFilter} :
    RetrievePermissions(c, parentInternalId, filterPermission)

SpecList == InitList /\ [][NextList]_vars

\* the garbage collection of a mirror in any state
SpecGc == InitMirror /\ [][NextGc]_vars

\* ---- properties of retrieveSlackConnectorPermissions ----
\* the permissions a filter value stands for
Expanded(filter) ==
  IF filter = "read" THEN {"read", "read_write"}
  ELSE IF filter = "write" THEN {"write", "read_write"}
  ELSE {"read_write"}

\* C1: under the filters read, write and read_write the answer holds exactly the
\* connector's channels whose permission is in the expanded set, each with its
\* stored permission; no channel of another connector and none with permission
\* "none" is in it.
C1_ListPermissions ==
  (listed.result = "ok" /\ listed.filter \in FilterValues) =>
    /\ listed.resources =
         {[connectorId |-> listed.connectorId, internalId |-> id,
           permission |-> slackChannel[listed.connectorId][id]] :
            id \in {x \in ChannelIds :
                      slackChannel[listed.connectorId][x] \in Expanded(listed.filter)}}
    /\ \A r \in listed.resources :
         r.connectorId = listed.connectorId /\ r.permission # "none"

\* a "write" listing that returns a read_write channel, leaves out a read channel
\* of the connector, while another connector owns a write channel
C1_Witness ==
  /\ listed.result = "ok"
  /\ listed.filter = "write"
  /\ \E r \in listed.resources : r.permission = "read_write"
  /\ \E id \in ChannelIds : slackChannel[listed.connectorId][id] = "read"
  /\ \E c \in ConnIds \ {listed.connectorId}, id \in ChannelIds : slackChannel[c][id] = "write"

\* ---- properties of setSlackConnectorPermissions ----
Readable == {"read", "read_write"}

\* the entries of the call's record that match a channel of the connector
Recognized(p) == {id \in ChannelIds : permissions[p][id] # Unset /\ channels[p][id] # Absent}
Unrecognized(p) == {id \in ChannelIds : permissions[p][id] # Unset /\ channels[p][id] = Absent}

\* the call was asked to turn reading on (off) for the channel
TurnsReadOn(p, id) ==
  id \in Recognized(p) /\ channels[p][id] \notin Readable /\ permissions[p][id] \in Readable
TurnsReadOff(p, id) ==
  id \in Recognized(p) /\ channels[p][id] \in Readable /\ permissions[p][id] \notin Readable

Settled(p, id) == task[p][id] \notin {"update", "join"}

\* C2 (as claimed): a call that repeats the input of the call just before it
\* changes no stored permission and launches no workflow.
C2_SecondCallNoOp ==
  \A p \in Procs :
    repeat[p] => /\ updates[p] = {}
                 /\ \A id \in ChannelIds : botJoins[p][id] = 0
                 /\ gcLaunches[p] = 0

\* C3: a call launches the bot-join workflow at most once per channel, only for a
\* channel whose stored permission was not readable and whose requested permission
\* is; once the channel's task has settled there was exactly one launch for such a
\* channel and none for any other.
C3_BotJoinIffReadEnabled ==
  \A p \in Procs, id \in ChannelIds :
    /\ botJoins[p][id] <= 1
    /\ botJoins[p][id] = 1 => TurnsReadOn(p, id)
    /\ (kind[p] = "setperm" /\ Settled(p, id)) =>
         (botJoins[p][id] = 1 <=> TurnsReadOn(p, id))

\* a settled call that launched one bot-join (none -> read) and changed another
\* channel inside the readable set without a launch
C3_Witness ==
  \E p \in Procs, id, other \in ChannelIds :
    /\ ret[p] = "ok" /\ Pending(p) = {}
    /\ channels[p][id] = "none" /\ permissions[p][id] = "read" /\ botJoins[p][id] = 1
    /\ channels[p][other] = "read" /\ permissions[p][other] = "read_write"
    /\ other \in updates[p] /\ botJoins[p][other] = 0

\* C4 (as claimed): once a bot-join launch of the call has failed, the call returns
\* that error and no task of the batch goes on: no permission of the batch is
\* changed and no bot-join is launched any more.
C4_BatchAborted ==
  [][\A p \in Procs :
       (Rejected(p) # {} /\ calls' = calls) =>
         /\ task'[p] = task[p]
         /\ ret'[p] \in {ret[p], "err_bot_join"}
    ]_vars

\* C5 (as claimed): a call that has returned and has changed a channel from a
\* readable to a non-readable permission has launched garbage collection.
C5_GarbageCollectLaunched ==
  \A p \in Procs :
    (kind[p] = "setperm" /\ ret[p] # "none" /\ \E id \in updates[p] : TurnsReadOff(p, id))
      => gcLaunches[p] >= 1

\* C6: a call launches garbage collection at most once, only when every task of
\* the batch has finished (none pending, none failed), and only if it changed a
\* channel from a readable to a non-readable permission.
C6_GarbageCollectOnceAtEnd ==
  \A p \in Procs :
    /\ gcLaunches[p] <= 1
    /\ gcLaunches[p] = 1 =>
         /\ Pending(p) = {} /\ Rejected(p) = {}
         /\ \A id \in Recognized(p) :
              permissions[p][id] # channels[p][id] => id \in updates[p]
         /\ \E id \in updates[p] : TurnsReadOff(p, id)

\* one launch for a batch that turned reading off for two channels
C6_Witness ==
  \E p \in Procs :
    /\ gcLaunches[p] = 1
    /\ Cardinality({id \in updates[p] : TurnsReadOff(p, id)}) >= 2

\* the call found its connector and its configuration
ReachedFindAll(p) ==
  /\ kind[p] = "setperm"
  /\ ret[p] \notin {"err_connector_not_found", "err_configuration_not_found"}

\* C7: in a call on a configured connector, an entry that matches no channel of
\* the connector gets no task and no row and does not make the call fail: the
\* call returns success unless a workflow launch failed, and by then every
\* recognized entry holds its requested permission (written by this call, or
\* stored already).
C7_UnrecognizedSkipped ==
  \A p \in Procs :
    (ReachedFindAll(p) /\ Unrecognized(p) # {}) =>
      /\ \A id \in Unrecognized(p) :
           task[p][id] = "none" /\ slackChannel[opConn[p]][id] = Absent
      /\ ret[p] = "err_bot_join" => Rejected(p) # {}
      /\ ret[p] = "err_garbage_collect" => gcLaunches[p] = 1
      /\ ret[p] = "ok" =>
           \A id \in Recognized(p) :
             /\ id \in updates[p] \/ channels[p][id] = permissions[p][id]
             /\ (\A q \in Procs \ {p} : Pending(q) = {}) =>
                  slackChannel[opConn[p]][id] = permissions[p][id]

\* a successful call whose record held an unknown id and changed a known channel
C7_Witness ==
  \E p \in Procs :
    /\ ret[p] = "ok"
    /\ Unrecognized(p) # {}
    /\ updates[p] # {}

\* ---- properties of cleanupSlackConnector ----
Calls(p, name) == {i \in 1..Len(revokeLog[p]) : revokeLog[p][i].call = name}
Revoked(p) ==
  revokeLog[p] = <<[call |-> "apps.uninstall", ok |-> TRUE],
                   [call |-> "nangoDeleteConnection", ok |-> TRUE]>>

\* C8 (as claimed): the step that ends a successful cleanup leaves no SlackChannel
\* row and no SlackConfiguration row of the connector, and changes no row of
\* another connector.
C8_RowsRemoved ==
  [][\A p \in Procs :
       (pc[p] = "cl_destroy" /\ pc'[p] = "idle" /\ ret'[p] = "ok") =>
         /\ \A id \in ChannelIds : slackChannel'[opConn[p]][id] = Absent
         /\ slackConfiguration'[opConn[p]] = Absent
         /\ \A c \in ConnIds \ {opConn[p]} :
              slackChannel'[c] = slackChannel[c] /\ slackConfiguration'[c] = slackConfiguration[c]
    ]_vars

\* C9: a cleanup makes each external call at most once and the connection is
\* deleted only after the uninstall; when other configurations share the team id
\* it makes none; when the connector is the only one of its team it uninstalls the
\* app, and a successful cleanup has made exactly the uninstall and the connection
\* deletion.
C9_RevokeOnlyWhenLast ==
  \A p \in Procs :
    kind[p] = "cleanup" =>
      /\ Cardinality(Calls(p, "apps.uninstall")) <= 1
      /\ Cardinality(Calls(p, "nangoDeleteConnection")) <= 1
      /\ Len(revokeLog[p]) >= 1 => revokeLog[p][1].call = "apps.uninstall"
      /\ Cardinality(configurations[p]) >= 2 => revokeLog[p] = <<>>
      /\ (Cardinality(configurations[p]) = 1 /\ ret[p] # "none") =>
           Cardinality(Calls(p, "apps.uninstall")) = 1
      /\ (Cardinality(configurations[p]) = 1 /\ ret[p] = "ok") => Revoked(p)

\* a successful cleanup without a revoke while a sibling of the team stays configured
C9_Witness ==
  \E p \in Procs :
    /\ kind[p] = "cleanup" /\ ret[p] = "ok"
    /\ revokeLog[p] = <<>>
    /\ Cardinality(configurations[p]) = 2
    /\ \E c \in configurations[p] \ {opConn[p]} : slackConfiguration[c] # Absent

C11_NoPartialCreate ==
  [][\A p \in Procs :
       (CanStart(p) /\ kind'[p] = "create" /\ ret'[p] \in {"err_team_info", "err_team_id"}) =>
         /\ connectors' = connectors /\ lastId' = lastId
         /\ slackConfiguration' = slackConfiguration
         /\ syncLaunches' = syncLaunches
         /\ pc'[p] = "idle" /\ opConn'[p] = 0
    ]_vars

\* a create that failed for want of a team id, next to a connector created before
C11_Witness ==
  \E p \in Procs :
    /\ kind[p] = "create" /\ ret[p] = "err_team_id"
    /\ connectors # {}
    /\ \A c \in ConnIds : syncLaunches[c] = (IF c \in connectors THEN 1 ELSE 0)

\* C13 (as claimed): a create launches the sync workflow at most once and only for
\* a connector whose rows are committed, it returns the connector id only after
\* the launch succeeded, and a create that returned an error left no connector
\* behind (so none without a launched sync).
C13_CreateLaunchesSync ==
  \A p \in Procs :
    kind[p] = "create" =>
      /\ \A c \in ConnIds : syncLaunches[c] <= 1
      /\ \A c \in ConnIds : syncLaunches[c] = 1 => c \in connectors /\ c <= lastId
      /\ ret[p] = "ok" => (opConn[p] \in connectors /\ syncLaunches[opConn[p]] = 1)
      /\ ret[p] \notin {"none", "ok"} => opConn[p] \notin connectors

\* ---- properties of the connector and configuration rows ----
\* C12: every Connector row has exactly one SlackConfiguration row, which names a
\* team, and a connector id without a Connector row has none.
C12_OneConfigurationPerConnector ==
  \A c \in ConnIds :
    /\ c \in connectors => (configurationRows[c] = 1 /\ slackConfiguration[c] \in Teams)
    /\ c \notin connectors => (configurationRows[c] = 0 /\ slackConfiguration[c] = Absent)

\* two connectors of the same team, one with the bot enabled and the other with
\* an updated connection
C12_Witness ==
  \E c, d \in connectors :
    /\ c # d
    /\ slackConfiguration[c] = slackConfiguration[d]
    /\ configurationRows[c] = 1 /\ configurationRows[d] = 1
    /\ botEnabled[c] /\ connectionId[d] = "k2"

\* ---- properties of updateSlackConnector ----
\* the step is a call of the operation in slot p
CallOf(p, operation) == CanStart(p) /\ kind'[p] = operation

\* C19: an update changes no SlackConfiguration row.  On a configured connector it
\* returns connector_oauth_target_mismatch exactly when a connectionId is passed
\* and the new connection has no team or another team than the stored one; an
\* update that returns an error changes no Connector row; an update that passes no
\* connectionId leaves every connectionId as it is; a successful update writes the
\* passed fields to its connector and nothing else.
C19_UpdateKeepsTeam ==
  [][\A p \in Procs :
       CallOf(p, "update") =>
         LET c == opConn'[p]
             args == updateArgs'[p]
             configured == c \in connectors /\ slackConfiguration[c] # Absent
         IN  /\ slackConfiguration' = slackConfiguration
             /\ configurationRows' = configurationRows
             /\ connectors' = connectors
             /\ (ret'[p] = "connector_oauth_target_mismatch") <=>
                  /\ configured
                  /\ args.connectionId # Unset
                  /\ (args.team = Absent \/ args.team # slackConfiguration[c])
             /\ ret'[p] # "ok" =>
                  /\ connectionId' = connectionId
                  /\ defaultNewResourcePermission' = defaultNewResourcePermission
             /\ args.connectionId = Unset => connectionId' = connectionId
             /\ ret'[p] = "ok" =>
                  /\ configured
                  /\ connectionId' =
                       [connectionId EXCEPT ![c] =
                          IF args.connectionId # Unset THEN args.connectionId ELSE @]
                  /\ defaultNewResourcePermission' =
                       [defaultNewResourcePermission EXCEPT ![c] =
                          IF args.defaultNewResourcePermission # Unset
                            THEN args.defaultNewResourcePermission ELSE @]
    ]_vars

\* an update with a connection of another team was refused although it also
\* passed a default permission, on a connector updated before
C19_Witness ==
  \E p \in Procs :
    /\ kind[p] = "update" /\ ret[p] = "connector_oauth_target_mismatch"
    /\ updateArgs[p].team \in Teams
    /\ updateArgs[p].defaultNewResourcePermission = "none"
    /\ connectionId[opConn[p]] = "k2"
    /\ defaultNewResourcePermission[opConn[p]] = DefaultNewResourcePermission

\* ---- properties of getBotEnabled and toggleSlackbot ----
\* C20: a SlackConfiguration row starts with botEnabled = false.  A toggle on a
\* configured connector succeeds, sets the flag of that connector to the given
\* value and changes no other flag; no other step changes the flag of a row that
\* stays in the table, so the value holds until the next toggle on the connector;
\* getBotEnabled returns the stored flag and changes nothing; on a connector
\* without configuration both return an error and change nothing.
C20_BotEnabled ==
  [][/\ \A c \in ConnIds :
          (slackConfiguration[c] = Absent /\ slackConfiguration'[c] # Absent) => ~botEnabled'[c]
     /\ (\A p \in Procs : ~CallOf(p, "toggle")) =>
          \A c \in ConnIds :
            (slackConfiguration[c] # Absent /\ slackConfiguration'[c] # Absent) =>
              botEnabled'[c] = botEnabled[c]
     /\ \A p \in Procs :
          /\ CallOf(p, "toggle") =>
               /\ (ret'[p] = "ok") <=> (slackConfiguration[opConn'[p]] # Absent)
               /\ ret'[p] = "ok" =>
                    /\ botEnabled'[opConn'[p]] = (botFlag'[p] = "true")
                    /\ \A d \in ConnIds \ {opConn'[p]} : botEnabled'[d] = botEnabled[d]
               /\ ret'[p] # "ok" => <<dbVars, rowVars>>' = <<dbVars, rowVars>>
          /\ CallOf(p, "get_bot_enabled") =>
               /\ <<dbVars, rowVars>>' = <<dbVars, rowVars>>
               /\ (ret'[p] = "ok") <=> (slackConfiguration[opConn'[p]] # Absent)
               /\ ret'[p] = "ok" =>
                    botFlag'[p] = (IF botEnabled[opConn'[p]] THEN "true" ELSE "false")
               /\ ret'[p] # "ok" => botFlag'[p] = "none"
    ]_vars

\* getBotEnabled answers true for a connector whose sibling of the same team has
\* the bot disabled
C20_Witness ==
  \E p \in Procs, d \in ConnIds :
    /\ d # opConn[p]
    /\ kind[p] = "get_bot_enabled" /\ ret[p] = "ok" /\ botFlag[p] = "true"
    /\ slackConfiguration[d] = slackConfiguration[opConn[p]]
    /\ ~botEnabled[d]

\* ---- properties of the HTTP server ----
AuthRanBefore(i) == \E j \in 1..(i - 1) : trace[j] = "authMiddleware"

\* C14: whenever the handler of an endpoint ran, authMiddleware ran before it for
\* the same request, unless the handler is the health check of GET /; a request
\* under /connectors whose authentication fails reaches no handler and is answered
\* by a middleware.
C14_AuthBeforeHandlers ==
  /\ \A i \in 1..Len(trace) :
       trace[i] \notin {"bodyParser.json", "authMiddleware"} =>
         \/ AuthRanBefore(i)
         \/ trace[i] = "healthCheck" /\ request.method = "GET" /\ request.path = <<>>
  /\ (Len(request.path) >= 1 /\ request.path[1] = "connectors" /\ ~request.authorized) =>
       /\ \A i \in 1..Len(trace) : trace[i] \in {"bodyParser.json", "authMiddleware"}
       /\ status \in {400, 401}

\* an authenticated DELETE of a connector went through the body parser and the
\* authentication to its handler
C14_Witness ==
  /\ request.method = "DELETE" /\ request.authorized
  /\ trace = <<"bodyParser.json", "authMiddleware", "deleteConnectorAPIHandler">>
  /\ status = 200

\* the request is a POST to the webhook route of a provider
WebhookPost(req) ==
  /\ req.method = "POST"
  /\ Len(req.path) = 3
  /\ req.path[1] = "webhooks"
  /\ req.path[3] \in {"slack", "google_drive", "github"}

Invalid(req) == req.path[2] # WebhookSecret \/ ~req.signatureOk

BotJoinsOf(c, id) ==
  (IF opConn[1] = c /\ kind[1] = "setperm" THEN botJoins[1][id] ELSE 0)
  + (IF opConn[2] = c /\ kind[2] = "setperm" THEN botJoins[2][id] ELSE 0)

\* C21: the bot-join launches for a channel are never more than the times its
\* stored permission went from not readable to readable
C21_NoDoubleCount ==
  \A c \in ConnIds, id \in ChannelIds : BotJoinsOf(c, id) <= readTransitions[c][id]

\* ---- overlapping cleanups ----
\* C22: once every cleanup has returned and no connector of the team has a
\* configuration row, exactly one cleanup has revoked the authorization
C22_RevokedExactlyOnce ==
  (/\ \A p \in Procs : pc[p] = "idle"
   /\ \E p \in Procs : kind[p] = "cleanup" /\ ret[p] = "ok"
   /\ \A c \in ConnIds : slackConfiguration[c] = Absent)
  => Cardinality({p \in Procs : Revoked(p)}) = 1

\* ---- failures of the Slack bot ----
\* C23: a call that fails returns an Err and throws nothing, and a call that
\* fails after the connector was found has posted one error reply: the text for
\* a user of another workspace, or the generic text
C23_FailuresReported ==
  /\ botCall.result # "thrown"
  /\ (botCall.message # 0 /\ botCall.result \notin {"none", "ok"}) =>
       botCall.errorMessage =
         IF botCall.result = "err_external_user" THEN "external_user" ELSE "generic"

\* ---- the merge of the agent event streams (conversation.ts 781-813, 1165-1197) ----
\* the agents mentioned in a message
AgentIds == 1..MaxAgents

\* what the functions of conversation.ts leave alone
connectorVars == <<dbVars, pc, kind, opConn, ret, spVars, clVars, lastCall, calls, listed,
                   rowVars, cfgVars, srvVars, mirrorVars, wfVars, botVars, histVars,
                   retrievalVars>>

\* what the merge loop leaves alone
restFront == <<convVars, inputs, stitchVars, agentVars>>

\* the k-th event of the stream of an agent
StreamEvent(a, k) == [type |-> "agent_event", agent |-> a, k |-> k]

\* a promise of gen.next() that has not settled
PendingPromise == [settled |-> FALSE, done |-> FALSE, value |-> 0]

\* a splice that always removes the first element
Splice_First(s, offset) == Tail(s)

\* array.splice(offset, 1)
Splice(s, offset) == [i \in 1..(Len(s) - 1) |-> IF i < offset THEN s[i] ELSE s[i + 1]]

\* the generators of the agent messages and the first next() of each
\* (conversation.ts 781-798)
StartStreams(agents) ==
  /\ eventStreamGenerators = [i \in 1..Len(agents) |-> [agent |-> agents[i], next |-> 1]]
  /\ eventStreamsPromises = [i \in 1..Len(agents) |-> PendingPromise]

\* the promise at an offset settles: the stream gives its next event, or is done
StreamSettles(offset) ==
  /\ callPc = "streams"
  /\ offset \in 1..Len(eventStreamsPromises)
  /\ ~eventStreamsPromises[offset].settled
  /\ LET gen == eventStreamGenerators[offset] IN
       IF gen.next > streamEvents[gen.agent]
         THEN /\ eventStreamsPromises' =
                   [eventStreamsPromises EXCEPT ![offset] =
                      [settled |-> TRUE, done |-> TRUE, value |-> 0]]
              /\ UNCHANGED eventStreamGenerators
         ELSE /\ eventStreamsPromises' =
                   [eventStreamsPromises EXCEPT ![offset] =
                      [settled |-> TRUE, done |-> FALSE, value |-> gen.next]]
              /\ eventStreamGenerators' = [eventStreamGenerators EXCEPT ![offset].next = @ + 1]
  /\ UNCHANGED <<streamEvents, callPc, emitted, restFront, connectorVars>>

\* one turn of the while loop: Promise.race gives a settled promise; a stream
\* that is done is spliced out, else its event is yielded and next() is called
\* again (conversation.ts 799-813)
RaceWinner(offset) ==
  /\ callPc = "streams"
  /\ offset \in 1..Len(eventStreamsPromises)
  /\ eventStreamsPromises[offset].settled
  /\ IF eventStreamsPromises[offset].done
       THEN /\ eventStreamGenerators' = Splice(eventStreamGenerators, offset)
            /\ eventStreamsPromises' = Splice(eventStreamsPromises, offset)
            /\ UNCHANGED emitted
       ELSE /\ eventStreamsPromises' = [eventStreamsPromises EXCEPT ![offset] = PendingPromise]
            /\ emitted' = Append(emitted,
                                 StreamEvent(eventStreamGenerators[offset].agent,
                                             eventStreamsPromises[offset].value))
            /\ UNCHANGED eventStreamGenerators
  /\ UNCHANGED <<streamEvents, callPc, restFront, connectorVars>>

\* eventStreamsPromises.length is 0: the loop ends
StreamsEnd ==
  /\ callPc = "streams"
  /\ Len(eventStreamsPromises) = 0
  /\ callPc' = "merged"
  /\ UNCHANGED <<eventStreamGenerators, eventStreamsPromises, streamEvents, emitted,
                 restFront, connectorVars>>

\* the loop starts for any number of agents whose streams have any length
InitMerge ==
  /\ InitConnectors
  /\ InitTables
  /\ conversationTitle = NoTitle
  /\ callPc = "streams"
  /\ emitted = <<>>
  /\ \E n \in 0..MaxAgents :
       /\ StartStreams([i \in 1..n |-> i])
       /\ streamEvents \in [AgentIds -> 0..MaxStreamEvents]
       /\ \A a \in AgentIds : a > n => streamEvents[a] = 0

NextMerge ==
  \/ \E offset \in AgentIds : StreamSettles(offset)
  \/ \E offset \in AgentIds : RaceWinner(offset)
  \/ StreamsEnd

SpecMerge == InitMerge /\ [][NextMerge]_vars

\* every stream goes on, and the loop runs when a promise has settled
FairSpecMerge == SpecMerge /\ WF_vars(NextMerge)

\* the events of the stream of an agent that were yielded, in the order of the yields
YieldedOf(a) == SelectSeq(emitted, LAMBDA e : e.type = "agent_event" /\ e.agent = a)

\* the events of the streams are yielded in the order of their stream, each once
MergeInOrder ==
  \A a \in AgentIds :
    /\ Len(YieldedOf(a)) <= streamEvents[a]
    /\ \A k \in 1..Len(YieldedOf(a)) : YieldedOf(a)[k] = StreamEvent(a, k)

\* C24: the loop yields the events of every stream in the order of the stream,
\* each exactly once, and ends after all of them were yielded
C24_MergeYieldsAll ==
  /\ [](MergeInOrder /\ (callPc = "merged" => \A a \in AgentIds : Len(YieldedOf(a)) = streamEvents[a]))
  /\ <>(callPc = "merged")

\* the loop has ended after it yielded events of two streams in turn
C24_Witness ==
  /\ callPc = "merged"
  /\ \E i, j, k \in 1..Len(emitted) :
       /\ i < j /\ j < k
       /\ emitted[i].agent = 2 /\ emitted[j].agent = 1 /\ emitted[k].agent = 2

\* ---- the conversation tables (conversation.ts) ----
\* A Message row and the UserMessage or AgentMessage row created with it are one
\* record of messageRows; the id (and sId) of a message is its index.
UserRow(rank, version, user) ==
  [type |-> "user", rank |-> rank, version |-> version, user |-> user, agent |-> 0,
   parentId |-> 0]
AgentRow(rank, version, agent, parentId) ==
  [type |-> "agent", rank |-> rank, version |-> version, user |-> NoUser, agent |-> agent,
   parentId |-> parentId]

Max(S) == CHOOSE x \in S : \A y \in S : y <= x

\* Message.max("rank") ?? -1 (conversation.ts 577-583)
MaxRank(rows) == IF rows = <<>> THEN -1 ELSE Max({rows[i].rank : i \in 1..Len(rows)})

\* message.mentions.filter(isAgentMention).length > 0, for the message of a row
HasAgentMentions(id) ==
  \E i \in 1..Len(mentionRows) : mentionRows[i].messageId = id /\ mentionRows[i].agent # 0

\* the mentions of a call: the first n agents are mentioned, getAgentConfiguration
\* finds a configuration for some of them, and users that are found are mentioned
MentionInputs ==
  {[agents |-> n, configured |-> s, users |-> u] :
     n \in 0..MaxAgents, s \in SUBSET AgentIds, u \in 0..1}
  \ {m \in [agents : 0..MaxAgents, configured : SUBSET AgentIds, users : 0..1] :
       \E a \in m.configured : a > m.agents}

\* the agent mentions with a configuration, in the order of the mentions
Resolved(mentions) ==
  LET RECURSIVE From(_)
      From(a) == IF a > mentions.agents THEN <<>>
                 ELSE IF a \in mentions.configured THEN <<a>> \o From(a + 1)
                 ELSE From(a + 1)
  IN From(1)

\* the Mention rows of a new user message (conversation.ts 673-679, 733-740)
NewMentions(id, mentions) ==
  [i \in 1..Len(Resolved(mentions)) |-> [messageId |-> id, agent |-> Resolved(mentions)[i]]]
  \o [i \in 1..mentions.users |-> [messageId |-> id, agent |-> 0]]

\* the AgentMessage and Message rows of the resolved mentions, with the ranks
\* from nextMessageRank on (conversation.ts 681-700); they are numbered here in
\* the order of the mentions
NewAgentRows(parentId, mentions, nextMessageRank) ==
  [i \in 1..Len(Resolved(mentions)) |->
     AgentRow(nextMessageRank + i - 1, 0, Resolved(mentions)[i], parentId)]

\* the reads of the transaction of postUserMessage (conversation.ts 576-583)
PostRead(p, user, mentions) ==
  txn' = [txn EXCEPT ![p] =
            [NoTxn EXCEPT !.fn = "post", !.state = "read", !.user = user,
                          !.mentions = mentions,
                          !.nextMessageRank = MaxRank(messageRows) + 1]]

\* the rows the transaction of postUserMessage creates and commits
\* (conversation.ts 585-756)
PostCommit(p) ==
  /\ txn[p].fn = "post"
  /\ txn[p].state = "read"
  /\ LET m == Len(messageRows) + 1
         agentRows == NewAgentRows(m, txn[p].mentions, txn[p].nextMessageRank + 1)
     IN /\ messageRows' =
             Append(messageRows, UserRow(txn[p].nextMessageRank, 0, txn[p].user)) \o agentRows
        /\ mentionRows' = mentionRows \o NewMentions(m, txn[p].mentions)
        /\ participants' = IF txn[p].user = NoUser THEN participants
                           ELSE participants \cup {txn[p].user}
        /\ txn' = [txn EXCEPT ![p].state = "committed", ![p].userMessage = m,
                              ![p].agentMessages = [i \in 1..Len(agentRows) |-> m + i]]
  /\ UNCHANGED <<conversationTitle, inputs, mergeVars, genVars, stitchVars, agentVars,
                 connectorVars>>

\* ---- postUserMessage (conversation.ts 533-852) ----
Event(type) == [type |-> type, agent |-> 0, k |-> 0]
AgentMessageNew(a) == [type |-> "agent_message_new", agent |-> a, k |-> 0]

\* the call starts: the workspace check, then the reads of the transaction
PostUserMessage(user, ownerOk, mentions, titleRes) ==
  /\ callPc \in {"idle", "returned"}
  /\ \A p \in Procs : txn[p].state # "read"
  /\ Len(messageRows) + 1 + Len(Resolved(mentions)) <= MaxRows
  /\ inputs' = [fn |-> "post", title |-> conversationTitle, titleRes |-> titleRes,
                ownerOk |-> ownerOk, user |-> user, message |-> 0,
                agents |-> mentions.agents]
  /\ IF ~ownerOk
       THEN /\ emitted' = <<Event("user_message_error")>>
            /\ callPc' = "returned"
            /\ txn' = [txn EXCEPT ![1] = NoTxn]
       ELSE /\ emitted' = <<>>
            /\ callPc' = "transaction"
            /\ PostRead(1, user, mentions)
  /\ UNCHANGED <<messageRows, mentionRows, participants, conversationTitle, mergeVars,
                 stitchVars, agentVars, connectorVars>>

\* yield user_message_new (conversation.ts 762-767)
YieldUserMessageNew ==
  /\ callPc = "transaction"
  /\ txn[1].state = "committed"
  /\ txn[1].fn \in {"post", "edit"}
  /\ emitted' = Append(emitted, Event("user_message_new"))
  /\ callPc' = "agent_message_new"
  /\ UNCHANGED <<convVars, inputs, mergeVars, stitchVars, agentVars, connectorVars>>

\* yield agent_message_new for the next agent message (conversation.ts 769-779)
YieldAgentMessageNew ==
  /\ callPc = "agent_message_new"
  /\ Len(emitted) <= Len(txn[1].agentMessages)
  /\ emitted' = Append(emitted,
                       AgentMessageNew(messageRows[txn[1].agentMessages[Len(emitted)]].agent))
  /\ UNCHANGED <<convVars, inputs, mergeVars, callPc, stitchVars, agentVars, connectorVars>>

\* the generators of the agent messages are made and next() is called on each;
\* the streams of the agents have any length (conversation.ts 781-798)
StartMerge(lengths) ==
  /\ callPc = "agent_message_new"
  /\ Len(emitted) > Len(txn[1].agentMessages)
  /\ \A a \in AgentIds :
       (\A i \in 1..Len(txn[1].agentMessages) : messageRows[txn[1].agentMessages[i]].agent # a)
         => lengths[a] = 0
  /\ streamEvents' = lengths
  /\ eventStreamGenerators' =
       [i \in 1..Len(txn[1].agentMessages) |->
          [agent |-> messageRows[txn[1].agentMessages[i]].agent, next |-> 1]]
  /\ eventStreamsPromises' = [i \in 1..Len(txn[1].agentMessages) |-> PendingPromise]
  /\ callPc' = "streams"
  /\ UNCHANGED <<convVars, inputs, emitted, stitchVars, agentVars, connectorVars>>

\* a title generation for a conversation that has a title
NeedsTitle_Always(title) == TRUE

\* conversation.title === null (conversation.ts 816)
NeedsTitle(title) == title = NoTitle

\* the title of the conversation, after the streams (conversation.ts 815-852)
PostTitle ==
  /\ callPc = "merged"
  /\ txn[1].fn = "post"
  /\ IF NeedsTitle(inputs.title) /\ inputs.titleRes = "ok"
       THEN /\ conversationTitle' = "title"
            /\ emitted' = Append(emitted, Event("conversation_title"))
       ELSE UNCHANGED <<conversationTitle, emitted>>
  /\ callPc' = "returned"
  /\ UNCHANGED <<messageRows, mentionRows, participants, txn, inputs, mergeVars, stitchVars,
                 agentVars, connectorVars>>

\* an empty conversation, with or without a title
InitConversation ==
  /\ InitConnectors
  /\ eventStreamGenerators = <<>>
  /\ eventStreamsPromises = <<>>
  /\ streamEvents = [a \in AgentIds |-> 0]
  /\ callPc = "idle"
  /\ emitted = <<>>
  /\ InitTables
  /\ conversationTitle \in {NoTitle, "title"}

\* posts of a user, which mention a user, and posts without user, which mention none
NextPost ==
  \/ \E user \in {"u1", NoUser}, ownerOk \in BOOLEAN, titleRes \in {"ok", "err"} :
       \E mentions \in {m \in MentionInputs : (m.users = 1) = (user = "u1")} :
         PostUserMessage(user, ownerOk, mentions, titleRes)
  \/ PostCommit(1)
  \/ YieldUserMessageNew
  \/ YieldAgentMessageNew
  \/ \E lengths \in [AgentIds -> 0..1] : StartMerge(lengths)
  \/ \E offset \in AgentIds : StreamSettles(offset)
  \/ \E offset \in AgentIds : RaceWinner(offset)
  \/ StreamsEnd
  \/ PostTitle

SpecPost == InitConversation /\ [][NextPost]_vars

\* the events of a call that passed the workspace check are in the order of the
\* function: user_message_new, the agent_message_new of the resolved mentions,
\* events of the agent streams, and a last conversation_title
PostOrder ==
  LET resolved == Resolved(txn[1].mentions)
      n == Len(resolved)
  IN /\ callPc \in {"streams", "merged", "returned"} => Len(emitted) >= n + 1
     /\ \A i \in 1..Len(emitted) :
          IF i = 1 THEN emitted[i] = Event("user_message_new")
          ELSE IF i <= n + 1 THEN emitted[i] = AgentMessageNew(resolved[i - 1])
          ELSE \/ emitted[i].type = "agent_event"
               \/ /\ emitted[i] = Event("conversation_title")
                  /\ i = Len(emitted)
                  /\ callPc = "returned"
                  /\ inputs.title = NoTitle
                  /\ inputs.titleRes = "ok"

\* a call that failed the workspace check has yielded user_message_error only
PostRejected == callPc = "returned" /\ emitted = <<Event("user_message_error")>>

\* C25: a postUserMessage that passes the workspace check yields user_message_new,
\* then agent_message_new for each resolved agent mention, then events of the
\* agent streams only, and last at most one conversation_title, which it yields
\* only for a conversation without title whose title generation succeeded; a call
\* that fails the workspace check yields one user_message_error and creates no row
C25_PostEventOrder ==
  /\ [](IF inputs.ownerOk THEN PostOrder ELSE PostRejected)
  /\ [][~inputs'.ownerOk =>
          /\ messageRows' = messageRows
          /\ mentionRows' = mentionRows
          /\ participants' = participants]_vars

\* a call with two resolved mentions has returned after events of both streams
\* and a conversation_title
C25_Witness ==
  /\ callPc = "returned"
  /\ inputs.ownerOk
  /\ Len(txn[1].agentMessages) = 2
  /\ emitted[Len(emitted)] = Event("conversation_title")
  /\ \E i, j \in 1..Len(emitted) :
       /\ emitted[i].type = "agent_event" /\ emitted[i].agent = 1
       /\ emitted[j].type = "agent_event" /\ emitted[j].agent = 2

\* a call that failed the workspace check on a conversation with messages
C25_WitnessRejected == PostRejected /\ ~inputs.ownerOk /\ Len(messageRows) > 0

\* ---- getConversation (conversation.ts 331-421) ----
\* the ids of a set of rows, sorted by version (rows of one version in the order
\* of their creation)
RECURSIVE SortedByVersion(_, _)
SortedByVersion(ids, rows) ==
  IF ids = {} THEN <<>>
  ELSE LET first == CHOOSE i \in ids :
                      \A j \in ids : \/ rows[i].version < rows[j].version
                                     \/ rows[i].version = rows[j].version /\ i <= j
       IN <<first>> \o SortedByVersion(ids \ {first}, rows)

\* conversation.content: one group for each rank, with the versions of the
\* message of that rank (conversation.ts 392-410); a message is its id
Content(rows) ==
  [r \in 1..(MaxRank(rows) + 1) |->
     SortedByVersion({i \in 1..Len(rows) : rows[i].rank = r - 1}, rows)]

\* conversation.content[conversation.content.length - 1].some((m) => m.sId === message.sId)
InLastGroup(id, groups) == \E k \in 1..Len(groups[Len(groups)]) : groups[Len(groups)][k] = id

\* ---- editUserMessage (conversation.ts 859-1198) ----
\* an author check that lets every user edit
IsAuthor_Any(user, id) == TRUE

\* auth.user()?.id !== message.user?.id, negated (conversation.ts 898)
IsAuthor(user, id) == user = messageRows[id].user

\* one of the checks before the transaction rejects the edit (conversation.ts 887-938)
EditRejected(user, ownerOk, id, mentions) ==
  \/ ~ownerOk
  \/ ~IsAuthor(user, id)
  \/ HasAgentMentions(id)
  \/ ~InLastGroup(id, Content(messageRows)) /\ mentions.agents > 0

\* the reads of the transaction of editUserMessage: the row of the message, and
\* the highest rank (conversation.ts 942-961, 1036-1042)
EditRead(p, user, id, mentions) ==
  txn' = [txn EXCEPT ![p] =
            [NoTxn EXCEPT !.fn = "edit", !.state = "read", !.user = user,
                          !.mentions = mentions, !.message = id,
                          !.rank = messageRows[id].rank,
                          !.version = messageRows[id].version,
                          !.nextMessageRank = MaxRank(messageRows) + 1]]

\* the rows the transaction of editUserMessage creates and commits: the new
\* version of the message, and the rows of the new mentions
\* (conversation.ts 963-1140)
EditCommit(p) ==
  /\ txn[p].fn = "edit"
  /\ txn[p].state = "read"
  /\ LET m == Len(messageRows) + 1
         agentRows == NewAgentRows(m, txn[p].mentions, txn[p].nextMessageRank)
     IN /\ messageRows' =
             Append(messageRows,
                    UserRow(txn[p].rank, txn[p].version + 1, messageRows[txn[p].message].user))
             \o agentRows
        /\ mentionRows' = mentionRows \o NewMentions(m, txn[p].mentions)
        /\ txn' = [txn EXCEPT ![p].state = "committed", ![p].userMessage = m,
                              ![p].agentMessages = [i \in 1..Len(agentRows) |-> m + i]]
  /\ UNCHANGED <<participants, conversationTitle, inputs, mergeVars, genVars, stitchVars,
                 agentVars, connectorVars>>

\* the call starts: the checks, then the reads of the transaction
EditUserMessage(user, ownerOk, id, mentions) ==
  /\ callPc \in {"idle", "returned"}
  /\ \A p \in Procs : txn[p].state # "read"
  /\ id \in 1..Len(messageRows)
  /\ messageRows[id].type = "user"
  /\ Len(messageRows) + 1 + Len(Resolved(mentions)) <= MaxRows
  /\ inputs' = [fn |-> "edit", title |-> conversationTitle, titleRes |-> "none",
                ownerOk |-> ownerOk, user |-> user, message |-> id,
                agents |-> mentions.agents]
  /\ IF EditRejected(user, ownerOk, id, mentions)
       THEN /\ emitted' = <<Event("user_message_error")>>
            /\ callPc' = "returned"
            /\ txn' = [txn EXCEPT ![1] = NoTxn]
       ELSE /\ emitted' = <<>>
            /\ callPc' = "transaction"
            /\ EditRead(1, user, id, mentions)
  /\ UNCHANGED <<messageRows, mentionRows, participants, conversationTitle, mergeVars,
                 stitchVars, agentVars, connectorVars>>

\* the merge loop has ended: editUserMessage returns (conversation.ts 1197-1198)
EditReturn ==
  /\ callPc = "merged"
  /\ txn[1].fn = "edit"
  /\ callPc' = "returned"
  /\ UNCHANGED <<convVars, inputs, mergeVars, emitted, stitchVars, agentVars, connectorVars>>

\* mentions of at most one agent, and of no user
RankMentions == {m \in MentionInputs : m.agents <= 1 /\ m.users = 0}

\* posts of one user, and edits of any message by any user
NextEdit ==
  \/ \E mentions \in MentionInputs : PostUserMessage("u1", TRUE, mentions, "err")
  \/ PostCommit(1)
  \/ \E user \in Users, id \in 1..MaxRows, mentions \in RankMentions :
       EditUserMessage(user, TRUE, id, mentions)
  \/ EditCommit(1)
  \/ YieldUserMessageNew
  \/ YieldAgentMessageNew
  \/ \E lengths \in [AgentIds -> 0..1] : StartMerge(lengths)
  \/ \E offset \in AgentIds : StreamSettles(offset)
  \/ \E offset \in AgentIds : RaceWinner(offset)
  \/ StreamsEnd
  \/ PostTitle
  \/ EditReturn

SpecEdit == InitConversation /\ [][NextEdit]_vars

\* the edit that starts in this step is one of: an edit by another user than the
\* author, an edit of a message with agent mentions, an edit with agent mentions
\* of a message that is not in the last group
EditNotAllowed ==
  /\ callPc \in {"idle", "returned"}
  /\ inputs'.fn = "edit"
  /\ \/ inputs'.user # messageRows[inputs'.message].user
     \/ HasAgentMentions(inputs'.message)
     \/ ~InLastGroup(inputs'.message, Content(messageRows)) /\ inputs'.agents > 0

\* C29: editUserMessage yields one user_message_error and creates no row when
\* the editor is not the author, when the message has agent mentions, and when
\* the edit has agent mentions and the message is not in the last group; so no
\* new version is made from a message that has agent mentions
C29_EditRejections ==
  /\ [][EditNotAllowed =>
          /\ emitted' = <<Event("user_message_error")>>
          /\ callPc' = "returned"
          /\ \A p \in Procs : txn'[p].state # "read"
          /\ messageRows' = messageRows
          /\ mentionRows' = mentionRows]_vars
  /\ [][\A p \in Procs :
          (txn[p].fn = "edit" /\ txn[p].state = "read" /\ txn'[p].state = "committed")
            => ~HasAgentMentions(txn[p].message)]_vars

\* the author's edit with agent mentions of a message without agent mentions
\* that is not in the last group was rejected
C29_Witness ==
  /\ callPc = "returned"
  /\ inputs.fn = "edit"
  /\ inputs.ownerOk
  /\ inputs.user = messageRows[inputs.message].user
  /\ ~HasAgentMentions(inputs.message)
  /\ ~InLastGroup(inputs.message, Content(messageRows))
  /\ inputs.agents > 0
  /\ emitted = <<Event("user_message_error")>>

\* an edit of another user than the author was rejected
C29_WitnessAuthor ==
  /\ callPc = "returned" /\ inputs.fn = "edit" /\ inputs.ownerOk
  /\ inputs.user # messageRows[inputs.message].user
  /\ emitted = <<Event("user_message_error")>>

\* the author's edit of a message with agent mentions was rejected
C29_WitnessMentions ==
  /\ callPc = "returned" /\ inputs.fn = "edit" /\ inputs.ownerOk
  /\ inputs.user = messageRows[inputs.message].user
  /\ HasAgentMentions(inputs.message)
  /\ emitted = <<Event("user_message_error")>>

\* an edit was accepted and made a new version
C29_WitnessAccepted ==
  /\ callPc = "returned" /\ inputs.fn = "edit"
  /\ \E i \in 1..Len(messageRows) : messageRows[i].version = 1

\* ---- streamRunAgentEvents (conversation.ts 1357-1441) ----
\* the types of the events of the stream of runAgent, and one the switch does not know
AgentEventTypes ==
  {"agent_error", "agent_action_success", "agent_generation_success",
   "agent_message_success", "retrieval_params", "generation_tokens", "unknown"}

\* the cases of the switch that return (conversation.ts 1395, 1438)
EndsStream(type) == type \in {"agent_error", "unknown"}

\* the update of the row for an event (conversation.ts 1381-1385, 1400-1402,
\* 1413-1415, 1421-1423)
RowAfter(row, type) ==
  IF type = "agent_error"
    THEN [row EXCEPT !.status = "failed", !.errorCode = "code", !.errorMessage = "message"]
  ELSE IF type = "agent_action_success" THEN [row EXCEPT !.agentRetrievalActionId = "action"]
  ELSE IF type = "agent_generation_success" THEN [row EXCEPT !.content = "text"]
  ELSE IF type = "agent_message_success" THEN [row EXCEPT !.status = "succeeded"]
  ELSE row

\* one turn of the for await loop: the row is updated, the event is yielded
\* unless its type is unknown, and the function returns or goes on
AgentEvent(type) ==
  /\ streamPc = "running"
  /\ Len(emitted) <= MaxStreamEvents
  /\ agentMessageRow' = RowAfter(agentMessageRow, type)
  /\ emitted' = IF type = "unknown" THEN emitted ELSE Append(emitted, Event(type))
  /\ streamPc' = IF EndsStream(type) THEN "returned" ELSE "running"
  /\ UNCHANGED <<convVars, inputs, mergeVars, callPc, stitchVars, connectorVars>>

\* the stream of runAgent is done
AgentStreamDone ==
  /\ streamPc = "running"
  /\ streamPc' = "returned"
  /\ UNCHANGED <<convVars, inputs, mergeVars, genVars, stitchVars, agentMessageRow,
                 connectorVars>>

\* the row of a new agent message (conversation.ts 681-688, 1243-1251)
CreatedAgentMessageRow == [NoAgentMessageRow EXCEPT !.status = "created"]

\* streamRunAgentEvents is called with the row of a new agent message
InitAgentStream ==
  /\ InitConnectors
  /\ eventStreamGenerators = <<>>
  /\ eventStreamsPromises = <<>>
  /\ streamEvents = [a \in AgentIds |-> 0]
  /\ callPc = "stream"
  /\ emitted = <<>>
  /\ messageRows = <<>>
  /\ mentionRows = <<>>
  /\ participants = {}
  /\ conversationTitle = NoTitle
  /\ txn = [p \in Procs |-> NoTxn]
  /\ inputs = NoInputs
  /\ InitStitch
  /\ InitRetrieval
  /\ agentMessageRow = CreatedAgentMessageRow
  /\ streamPc = "running"

NextAgentStream ==
  \/ \E type \in AgentEventTypes : AgentEvent(type)
  \/ AgentStreamDone

SpecAgentStream == InitAgentStream /\ [][NextAgentStream]_vars

\* C26: the status of an agent message that is succeeded stays succeeded
C26_SucceededStays ==
  [][agentMessageRow.status = "succeeded" => agentMessageRow'.status = "succeeded"]_vars

\* ---- retryAgentMessage (conversation.ts 1202-1355) ----
\* the reads of the transaction of retryAgentMessage (conversation.ts 1225-1242)
RetryRead(p, id) ==
  txn' = [txn EXCEPT ![p] =
            [NoTxn EXCEPT !.fn = "retry", !.state = "read", !.message = id,
                          !.rank = messageRows[id].rank,
                          !.version = messageRows[id].version,
                          !.parentId = messageRows[id].parentId]]

\* the rows the transaction of retryAgentMessage creates and commits
\* (conversation.ts 1243-1283)
RetryCommit(p) ==
  /\ txn[p].fn = "retry"
  /\ txn[p].state = "read"
  /\ messageRows' =
       Append(messageRows,
              AgentRow(txn[p].rank, txn[p].version + 1, messageRows[txn[p].message].agent,
                       txn[p].parentId))
  /\ txn' = [txn EXCEPT ![p].state = "committed",
                        ![p].agentMessages = <<Len(messageRows) + 1>>]
  /\ UNCHANGED <<mentionRows, participants, conversationTitle, inputs, mergeVars, genVars,
                 stitchVars, agentVars, connectorVars>>

\* the call starts, with the conversation the caller has read: the transaction
\* finds the row of the message, or the call yields agent_error and returns
\* (conversation.ts 1221-1297)
RetryAgentMessage(id) ==
  /\ callPc \in {"idle", "returned"}
  /\ \A p \in Procs : txn[p].state # "read"
  /\ Len(messageRows) + 1 <= MaxRows
  /\ inputs' = [NoInputs EXCEPT !.fn = "retry", !.message = id]
  /\ content' = Content(messageRows)
  /\ handed' = NotHanded
  /\ IF id > Len(messageRows) \/ messageRows[id].type # "agent"
       THEN /\ emitted' = <<Event("agent_error")>>
            /\ callPc' = "returned"
            /\ txn' = [txn EXCEPT ![1] = NoTxn]
       ELSE /\ emitted' = <<>>
            /\ callPc' = "transaction"
            /\ RetryRead(1, id)
  /\ UNCHANGED <<messageRows, mentionRows, participants, conversationTitle, mergeVars,
                 agentVars, connectorVars>>

\* conversation.content.findIndex / find: the first group with a message
GroupIndex(id, groups) ==
  CHOOSE g \in 1..Len(groups) :
    /\ \E k \in 1..Len(groups[g]) : groups[g][k] = id
    /\ \A h \in 1..(g - 1) : \A k \in 1..Len(groups[h]) : groups[h][k] # id

\* agentMessageArray.push(agentMessage), for the group of conversation.content
\* that agentMessageArray is (conversation.ts 1324-1327)
PushedTo(groups, g, m) == [groups EXCEPT ![g] = Append(@, m)]

\* yield agent_message_new, the stitching of the conversation, and the call of
\* runAgent and streamRunAgentEvents (conversation.ts 1299-1354)
RetryStitch ==
  /\ callPc = "transaction"
  /\ txn[1].fn = "retry"
  /\ txn[1].state = "committed"
  /\ LET agentMessage == txn[1].agentMessages[1]
         parentMessageIndex == GroupIndex(txn[1].parentId, content)
         pushed == PushedTo(content, GroupIndex(txn[1].message, content), agentMessage)
         agentMessageArray == pushed[GroupIndex(txn[1].message, content)]
     IN /\ emitted' = Append(emitted, AgentMessageNew(messageRows[agentMessage].agent))
        /\ content' = pushed
        /\ handed' = Append(SubSeq(pushed, 1, parentMessageIndex),
                            Append(agentMessageArray, agentMessage))
  /\ callPc' = "stream"
  /\ agentMessageRow' = CreatedAgentMessageRow
  /\ streamPc' = "running"
  /\ UNCHANGED <<convVars, inputs, mergeVars, connectorVars>>

\* streamRunAgentEvents has returned: retryAgentMessage returns
RetryReturn ==
  /\ callPc = "stream"
  /\ streamPc = "returned"
  /\ callPc' = "returned"
  /\ UNCHANGED <<convVars, inputs, mergeVars, emitted, stitchVars, agentVars, connectorVars>>

\* posts of one user, and retries of any message
NextRetry ==
  \/ \E mentions \in MentionInputs : PostUserMessage("u1", TRUE, mentions, "err")
  \/ PostCommit(1)
  \/ YieldUserMessageNew
  \/ YieldAgentMessageNew
  \/ \E lengths \in [AgentIds -> 0..1] : StartMerge(lengths)
  \/ \E offset \in AgentIds : StreamSettles(offset)
  \/ \E offset \in AgentIds : RaceWinner(offset)
  \/ StreamsEnd
  \/ PostTitle
  \/ \E id \in 1..MaxRows : RetryAgentMessage(id)
  \/ RetryCommit(1)
  \/ RetryStitch
  \/ \E type \in {"generation_tokens", "agent_message_success", "agent_error"} :
       AgentEvent(type)
  \/ AgentStreamDone
  \/ RetryReturn

SpecRetry == InitConversation /\ [][NextRetry]_vars

\* the group of a message in the content the caller passed
GroupOf(id, groups) == groups[GroupIndex(id, groups)]

\* C28: the content retryAgentMessage hands to runAgent is the content up to the
\* group of the parent message, then one group with the earlier versions of the
\* agent message and the new agent message once; the content of the caller stays
C28_StitchedOnce ==
  [][(handed' # handed /\ handed' # NotHanded) =>
       /\ handed' = Append(SubSeq(content, 1, GroupIndex(txn[1].parentId, content)),
                           Append(GroupOf(txn[1].message, content), txn[1].agentMessages[1]))
       /\ content' = content]_vars

\* ---- concurrent transactions (conversation.ts 576-756, 942-1140, 1224-1283) ----
\* the rows a transaction that has read will create
PendingRows(p) ==
  IF txn[p].state # "read" THEN 0
  ELSE IF txn[p].fn = "retry" THEN 1
  ELSE 1 + Len(Resolved(txn[p].mentions))

\* what the transactions leave alone
txnFrame == <<conversationTitle, inputs, mergeVars, genVars, stitchVars, agentVars,
              connectorVars>>

\* a call of postUserMessage reaches its transaction
TxPost(p, mentions) ==
  /\ txn[p].state # "read"
  /\ Len(messageRows) + PendingRows(1) + PendingRows(2) + 1 + Len(Resolved(mentions))
       <= MaxRows
  /\ PostRead(p, "u1", mentions)
  /\ UNCHANGED <<messageRows, mentionRows, participants, txnFrame>>

\* a call of editUserMessage by the author passes the checks and reaches its
\* transaction
TxEdit(p, id, mentions) ==
  /\ txn[p].state # "read"
  /\ id \in 1..Len(messageRows)
  /\ messageRows[id].type = "user"
  /\ ~EditRejected(messageRows[id].user, TRUE, id, mentions)
  /\ Len(messageRows) + PendingRows(1) + PendingRows(2) + 1 + Len(Resolved(mentions))
       <= MaxRows
  /\ EditRead(p, messageRows[id].user, id, mentions)
  /\ UNCHANGED <<messageRows, mentionRows, participants, txnFrame>>

\* a call of retryAgentMessage reaches its transaction and finds the row
TxRetry(p, id) ==
  /\ txn[p].state # "read"
  /\ id \in 1..Len(messageRows)
  /\ messageRows[id].type = "agent"
  /\ Len(messageRows) + PendingRows(1) + PendingRows(2) + 1 <= MaxRows
  /\ RetryRead(p, id)
  /\ UNCHANGED <<messageRows, mentionRows, participants, txnFrame>>

\* the transactions of calls that overlap; what the calls yield is left out
NextRank ==
  \/ \E p \in Procs, mentions \in RankMentions : TxPost(p, mentions)
  \/ \E p \in Procs : PostCommit(p)
  \/ \E p \in Procs, id \in 1..MaxRows, mentions \in RankMentions : TxEdit(p, id, mentions)
  \/ \E p \in Procs : EditCommit(p)
  \/ \E p \in Procs, id \in 1..MaxRows : TxRetry(p, id)
  \/ \E p \in Procs : RetryCommit(p)

SpecRank == InitConversation /\ [][NextRank]_vars

\* C27: no two Message rows of the conversation have the same rank and version
C27_UniqueRankVersion ==
  \A i, j \in 1..Len(messageRows) :
    (messageRows[i].rank = messageRows[j].rank
     /\ messageRows[i].version = messageRows[j].version) => i = j

\* ---- the retrieval configuration of an agent (unnamed/part_000, part_001) ----
\* A RetrievalQuery is "auto", "none" or { template }, a RetrievalTimeframe is
\* "auto", "none" or { duration, unit }; both are records with a kind here.
Templates == {"", "t"}
TimeframeUnits == {"hour", "day", "week", "month", "year"}
RetrievalQueries ==
  {[kind |-> k, template |-> Null] : k \in {"auto", "none"}}
  \cup {[kind |-> "templated", template |-> t] : t \in Templates}
RetrievalTimeframes ==
  {[kind |-> k, duration |-> NullNumber, unit |-> Null] : k \in {"auto", "none"}}
  \cup {[kind |-> "custom", duration |-> d, unit |-> u] :
          d \in 0..MaxDuration, u \in TimeframeUnits}

\* (arg as TemplatedQuery).template !== undefined
isTemplatedQuery(arg) == arg.kind = "templated"

\* (arg as TimeFrame).duration !== undefined && (arg as TimeFrame).unit !== undefined
isTimeFrame(arg) == arg.kind = "custom"

\* a string, or a number, in a condition
TruthyString(v) == v # Null /\ v # ""
TruthyNumber(v) == v # NullNumber /\ v # 0

\* the values of AgentRetrievalConfiguration.create and of update
\* (part_001 249-259, 550-560)
StoredRow(query, timeframe) ==
  [query |-> IF isTemplatedQuery(query) THEN "templated" ELSE query.kind,
   queryTemplate |-> IF isTemplatedQuery(query) THEN query.template ELSE Null,
   relativeTimeFrame |-> IF isTimeFrame(timeframe) THEN "custom" ELSE timeframe.kind,
   relativeTimeFrameDuration |-> IF isTimeFrame(timeframe) THEN timeframe.duration
                                 ELSE NullNumber,
   relativeTimeFrameUnit |-> IF isTimeFrame(timeframe) THEN timeframe.unit ELSE Null]

\* the timeframe and the query renderAgentActionConfigurationType builds from a
\* row (part_001 588-615)
renderAgentActionConfigurationType(action) ==
  [timeframe |->
     IF /\ action.relativeTimeFrame = "custom"
        /\ TruthyNumber(action.relativeTimeFrameDuration)
        /\ TruthyString(action.relativeTimeFrameUnit)
       THEN [kind |-> "custom", duration |-> action.relativeTimeFrameDuration,
             unit |-> action.relativeTimeFrameUnit]
     ELSE IF action.relativeTimeFrame = "none"
       THEN [kind |-> "none", duration |-> NullNumber, unit |-> Null]
     ELSE [kind |-> "auto", duration |-> NullNumber, unit |-> Null],
   query |->
     IF action.query = "templated" /\ TruthyString(action.queryTemplate)
       THEN [kind |-> "templated", template |-> action.queryTemplate]
     ELSE IF action.query = "none" THEN [kind |-> "none", template |-> Null]
     ELSE [kind |-> "auto", template |-> Null]]

\* the row is stored and rendered
StoreAndRender(fn, query, timeframe) ==
  /\ retrievalConfig' = StoredRow(query, timeframe)
  /\ requested' = [fn |-> fn, query |-> query, timeframe |-> timeframe]
  /\ rendered' = [fn |-> fn,
                  query |-> renderAgentActionConfigurationType(retrievalConfig').query,
                  timeframe |-> renderAgentActionConfigurationType(retrievalConfig').timeframe]
  /\ UNCHANGED <<mergeVars, genVars, convVars, inputs, stitchVars, agentVars>>
  /\ UNCHANGED <<dbVars, pc, kind, opConn, ret, spVars, clVars, lastCall, calls, listed,
                 rowVars, cfgVars, srvVars, mirrorVars, wfVars, botVars, histVars>>

\* createAgentActionConfiguration (part_001 219-273)
createAgentActionConfiguration(query, timeframe) ==
  StoreAndRender("create", query, timeframe)

\* updateAgentActionConfiguration, for an agent that has a retrieval
\* configuration (part_001 495-583)
updateAgentActionConfiguration(query, timeframe) ==
  /\ retrievalConfig # NoRetrievalConfig
  /\ StoreAndRender("update", query, timeframe)

NextRetrieval ==
  \/ \E query \in RetrievalQueries, timeframe \in RetrievalTimeframes :
       createAgentActionConfiguration(query, timeframe)
  \/ \E query \in RetrievalQueries, timeframe \in RetrievalTimeframes :
       updateAgentActionConfiguration(query, timeframe)

SpecRetrieval == Init /\ [][NextRetrieval]_vars

\* C30: the query and the timeframe a call of createAgentActionConfiguration or
\* updateAgentActionConfiguration returns are the ones it was given
C30_RoundTrip == rendered = requested

====
